---- MODULE Spec2Model ----
(***************************************************************************)
(* Priority-tiered refresh scheduler (app/services/smart_scheduler.py) and *)
(* the TTL cache managers beneath it (simple_redis_manager.py,             *)
(* fallback_redis_manager.py, redis_manager.py).                           *)
(*                                                                         *)
(* Time is in seconds since 00:00 of day 0 in the scheduler's time zone.   *)
(* A coroutine is modelled from one suspension point (an await on the      *)
(* cache backend) to the next: the code between two awaits is one step.    *)
(***************************************************************************)
EXTENDS Integers, Sequences, FiniteSets, TLC

\* fetch_category_news invocations followed in one behaviour of Spec
MaxRuns == 2

\* days the clock of SpecDay runs through
MaxDays == 2

\* cache reads (get calls) in one behaviour
MaxGets == 2

\* the cache clock runs from 0 to MaxTime seconds
MaxTime == 2

\* set calls counted by a cache manager
MaxSets == 2

\* _update_access_metadata tasks pending at once
MaxTasks == 1

VARIABLES
    now,            \* wall clock (datetime.now()), seconds
    is_running,     \* SmartNewsScheduler.is_running
    refresh_stats,  \* SmartNewsScheduler.refresh_stats
    jobs,           \* SmartNewsScheduler.scheduler: job id -> next_run_time
    runs,           \* frames of the fetch_category_news coroutines
    simple_cache,   \* the SimpleRedisManager instance simple_cache
    fallback_redis_manager, \* the FallbackRedisManager instance
    redis_manager,  \* the RedisManager instance
    tasks,          \* RedisManager._update_access_metadata tasks not yet finished
    manager,        \* the cache manager the callers of SpecCache talk to
    last_set,       \* per stored key, the last set call and when it returned
    twin,           \* SpecTwin: the same managers on the in-memory path
    reply           \* SpecManual: what the last manual operation returned

vars == <<now, is_running, refresh_stats, jobs, runs, simple_cache,
          fallback_redis_manager, redis_manager, tasks, manager, last_set, twin, reply>>

\* what the scheduler and the SimpleRedisManager never touch
otherManagers == <<fallback_redis_manager, redis_manager, tasks, manager, last_set,
                   twin, reply>>

\* what no cache manager touches
schedulerVars == <<is_running, refresh_stats, jobs, runs>>

-----------------------------------------------------------------------------
(* Python dicts: functions whose domain is the set of keys present.        *)

EmptyDict == <<>>

DictSet(d, k, v) == [x \in (DOMAIN d) \cup {k} |-> IF x = k THEN v ELSE d[x]]

DictPop(d, k) == [x \in (DOMAIN d) \ {k} |-> d[x]]

-----------------------------------------------------------------------------
(* SmartNewsScheduler.__init__: the category catalog.  A time of day       *)
(* "HH:MM" is the pair <<HH, MM>>.                                         *)

Categories == {"Hrvatska", "Svijet", "Ekonomija", "Sport", "Regija"}

category_priorities ==
    [c \in Categories |->
        CASE c = "Hrvatska" ->
               [priority |-> "high", frequency |-> 6,
                times |-> << <<6,0>>, <<9,15>>, <<15,15>>, <<18,15>>, <<23,0>>, <<2,0>> >>]
          [] c = "Svijet" ->
               [priority |-> "high", frequency |-> 6,
                times |-> << <<6,15>>, <<12,15>>, <<18,0>>, <<21,15>>, <<2,0>>, <<9,0>> >>]
          [] c = "Ekonomija" ->
               [priority |-> "medium", frequency |-> 4,
                times |-> << <<9,0>>, <<15,0>>, <<12,0>>, <<18,30>> >>]
          [] c = "Sport" ->
               [priority |-> "medium", frequency |-> 4,
                times |-> << <<12,0>>, <<21,0>>, <<15,30>>, <<9,30>> >>]
          [] c = "Regija" ->
               [priority |-> "low", frequency |-> 1,
                times |-> << <<23,15>> >>]]

InitialRefreshStats ==
    [total_refreshes |-> 0,
     successful_refreshes |-> 0,
     failed_refreshes |-> 0,
     category_stats |-> [c \in Categories |-> [success |-> 0, failed |-> 0]]]

\* the keys of category_priorities in the order of the dict literal
CategoryOrder == <<"Hrvatska", "Svijet", "Ekonomija", "Sport", "Regija">>

\* _get_cache_ttl without the medium branch
get_cache_ttl_NoMedium(category) ==
    IF category_priorities[category].priority = "high" THEN 14400 ELSE 86400

\* _get_cache_ttl
get_cache_ttl(category) ==
    LET priority == category_priorities[category].priority
    IN  IF priority = "high" THEN 14400
        ELSE IF priority = "medium" THEN 21600
        ELSE 86400

-----------------------------------------------------------------------------
(* SimpleRedisManager                                                      *)

\* str.lower() on the category names the callers pass
Lower(s) ==
    CASE s = "Hrvatska" -> "hrvatska"
      [] s = "Svijet" -> "svijet"
      [] s = "Ekonomija" -> "ekonomija"
      [] s = "Sport" -> "sport"
      [] s = "Regija" -> "regija"
      [] s = "Tehnologija" -> "tehnologija"
      [] OTHER -> s

NewsKey(category) == <<"news", Lower(category)>>

TimestampKey(category) == <<"timestamp", Lower(category)>>

\* json.dumps / json.loads of an article list
JsonDumps(articles) == [json |-> articles]

JsonLoads(text) == text.json

\* datetime.isoformat / datetime.fromisoformat
Isoformat(t) == [iso |-> t]

Fromisoformat(text) == text.iso

\* FakeRedis SETEX: the key holds value until ttl seconds from now
RedisSetex(data, key, ttl, value) ==
    DictSet(data, key, [value |-> value, expire_at |-> now + ttl])

\* FakeRedis key present and not expired
RedisLive(data, key) == key \in DOMAIN data /\ now < data[key].expire_at

\* SimpleRedisManager.__init__
NewSimpleRedisManager ==
    [fake_redis |-> [present |-> FALSE, data |-> EmptyDict, reachable |-> FALSE],
     memory_cache |-> EmptyDict,
     is_connected |-> FALSE,
     cache_hits |-> 0,
     cache_misses |-> 0]

\* what the backend does at connect():
\*   "up"               FakeRedis() is built and answers the ping
\*   "ping_fails"       FakeRedis() is built, the ping raises
\*   "construct_fails"  FakeRedis() raises
BackendOutcomes == {"up", "ping_fails", "construct_fails"}

\* SimpleRedisManager.connect (lines 31-47), FAKEREDIS_AVAILABLE = available.
\* Line 35 assigns self.fake_redis before the ping of line 36, and the except
\* branch (44-47) does not reset it.
SimpleConnectWith(cache, available, backend) ==
    IF available /\ backend # "construct_fails"
    THEN [cache EXCEPT !.fake_redis = [present |-> TRUE, data |-> EmptyDict,
                                       reachable |-> (backend = "up")],
                       !.memory_cache = IF backend = "up" THEN @ ELSE EmptyDict,
                       !.is_connected = TRUE]
    ELSE [cache EXCEPT !.memory_cache = EmptyDict, !.is_connected = TRUE]

\* SimpleRedisManager.connect with a backend that answers
SimpleConnect(cache, available) == SimpleConnectWith(cache, available, "up")

\* a call on the backend goes through: the call itself does not fail (ok)
\* and, when the manager holds a FakeRedis object, that backend answers
Served(cache, ok) == ok /\ (cache.fake_redis.present => cache.fake_redis.reachable)

\* set_news, memory branch (lines 70-79): both keys in one step
MemorySetNews(cache, category, articles, ttl_seconds) ==
    LET expires_at == now + ttl_seconds
        m1 == DictSet(cache.memory_cache, NewsKey(category),
                      [data |-> articles, expires_at |-> expires_at])
        m2 == DictSet(m1, TimestampKey(category),
                      [data |-> Isoformat(now), expires_at |-> expires_at])
    IN  [cache EXCEPT !.memory_cache = m2]

\* set_news line 66: the first setex has been applied by the backend
SetexNews(cache, category, articles, ttl_seconds) ==
    [cache EXCEPT !.fake_redis.data =
        RedisSetex(@, NewsKey(category), ttl_seconds, JsonDumps(articles))]

\* set_news line 67: the second setex has been applied by the backend
SetexTimestamp(cache, category, current_time, ttl_seconds) ==
    [cache EXCEPT !.fake_redis.data =
        RedisSetex(@, TimestampKey(category), ttl_seconds, Isoformat(current_time))]

\* what a get hands back: a value, or None
Absent == [hit |-> FALSE, value |-> <<>>]

Present(value) == [hit |-> TRUE, value |-> value]

\* FakeRedis drops a key it finds expired when the key is accessed
RedisPurge(data, key) ==
    IF key \in DOMAIN data /\ ~(now < data[key].expire_at) THEN DictPop(data, key) ELSE data

\* SimpleRedisManager.get_news (lines 88-120): the value returned; ok is
\* whether the backend call goes through without an exception
GetNewsResult(cache, category, ok) ==
    LET cache_key == NewsKey(category)
    IN  IF ~Served(cache, ok) THEN Absent
        ELSE IF cache.fake_redis.present
        THEN IF RedisLive(cache.fake_redis.data, cache_key)
             THEN Present(JsonLoads(cache.fake_redis.data[cache_key].value))
             ELSE Absent
        ELSE IF cache_key \in DOMAIN cache.memory_cache
                /\ cache.memory_cache[cache_key].expires_at > now
             THEN Present(cache.memory_cache[cache_key].data)
             ELSE Absent

\* SimpleRedisManager.get_news (lines 88-120): the counters
GetNews(cache, category, ok) ==
    LET result == GetNewsResult(cache, category, ok)
        counted == IF result.hit
                   THEN [cache EXCEPT !.cache_hits = @ + 1]
                   ELSE [cache EXCEPT !.cache_misses = @ + 1]
    IN  IF Served(cache, ok) /\ cache.fake_redis.present
        THEN [counted EXCEPT !.fake_redis.data = RedisPurge(@, NewsKey(category))]
        ELSE counted

\* Redis rejects SETEX with a time to live that is not positive
SetexAccepted(ttl, ok) == ok /\ ttl > 0

\* FakeRedis() is built without decode_responses (line 35): get returns the
\* stored text as bytes
RedisGet(data, key) == [bytes |-> data[key].value]

\* datetime.fromisoformat takes a str and raises TypeError for bytes
IsStr(x) == "bytes" \notin DOMAIN x

\* SimpleRedisManager.get_timestamp (lines 122-140): the value returned; an
\* exception of the backend or of fromisoformat is caught and None returned
GetTimestamp(cache, category, ok) ==
    LET timestamp_key == TimestampKey(category)
    IN  IF ~Served(cache, ok) THEN Absent
        ELSE IF cache.fake_redis.present
        THEN IF RedisLive(cache.fake_redis.data, timestamp_key)
             THEN LET cached_timestamp == RedisGet(cache.fake_redis.data, timestamp_key)
                  IN  IF IsStr(cached_timestamp)
                      THEN Present(Fromisoformat(cached_timestamp))
                      ELSE Absent
             ELSE Absent
        ELSE IF timestamp_key \in DOMAIN cache.memory_cache
                /\ cache.memory_cache[timestamp_key].expires_at > now
             THEN Present(Fromisoformat(cache.memory_cache[timestamp_key].data))
             ELSE Absent

\* SimpleRedisManager.set_news (lines 57-86) as one call: the manager after
\* it and the value returned.  ok1 and ok2: the two setex calls go through.
SetNews(cache, category, articles, ttl_seconds, ok1, ok2) ==
    IF cache.fake_redis.present
    THEN IF ~SetexAccepted(ttl_seconds, Served(cache, ok1))
         THEN [self |-> cache, ret |-> FALSE]
         ELSE LET stored == SetexNews(cache, category, articles, ttl_seconds)
              IN  IF ~SetexAccepted(ttl_seconds, Served(cache, ok2))
                  THEN [self |-> stored, ret |-> FALSE]
                  ELSE [self |-> SetexTimestamp(stored, category, now, ttl_seconds),
                        ret |-> TRUE]
    ELSE [self |-> MemorySetNews(cache, category, articles, ttl_seconds), ret |-> TRUE]

\* SimpleRedisManager.get_stats line 171
SimpleCacheType(cache) == IF cache.fake_redis.present THEN "FakeRedis" ELSE "Memory"

\* (hits / total * 100) if total > 0 else 0: a percentage is the exact
\* fraction <<numerator, denominator>>
HitRate(hits, misses) ==
    IF hits + misses > 0 THEN <<hits * 100, hits + misses>> ELSE <<0, 1>>

\* two fractions denote the same number
SameRate(a, b) == a[1] * b[2] = b[1] * a[2]

\* the integer nearest to num / den, a tie going to the even one (round)
RoundHalfEven(num, den) ==
    LET q == num \div den
        r == num % den
    IN  IF 2 * r < den THEN q
        ELSE IF 2 * r > den THEN q + 1
        ELSE IF q % 2 = 0 THEN q ELSE q + 1

\* round(x, 1) of the fraction x, in tenths
Round1(x) == <<RoundHalfEven(x[1] * 10, x[2]), 10>>

\* SimpleRedisManager.get_stats (lines 161-172)
SimpleGetStats(cache) ==
    [connected |-> cache.is_connected,
     cache_hits |-> cache.cache_hits,
     cache_misses |-> cache.cache_misses,
     hit_rate |-> Round1(HitRate(cache.cache_hits, cache.cache_misses)),
     cache_type |-> SimpleCacheType(cache)]

-----------------------------------------------------------------------------
(* FallbackRedisManager and RedisManager                                   *)

\* CACHE_TTL
default_ttl == 7200

\* _make_key: key_prefix + key
MakeKey(key) == <<"ai_novine:", key>>

\* ttl = ttl or self.default_ttl
EffectiveTtl(ttl) == IF ttl = 0 THEN default_ttl ELSE ttl

\* CacheEntry(data=value, created_at, expires_at) as set() builds it;
\* last_accessed = -1 is None; size_bytes, a function of value alone, is left out
NewCacheEntry(value, ttl) ==
    [data |-> value, created_at |-> now, expires_at |-> now + ttl,
     access_count |-> 0, last_accessed |-> -1]

\* orjson.dumps(asdict(entry)) and CacheEntry(**orjson.loads(text)); the
\* datetimes become ISO strings that nothing parses back
OrjsonDumps(entry) == [orjson |-> entry]

OrjsonLoads(text) == text.orjson

\* FallbackRedisManager.__init__
NewFallbackRedisManager(fakeredis_available) ==
    [fake_redis |-> [present |-> FALSE, data |-> EmptyDict, reachable |-> FALSE],
     memory_cache |-> EmptyDict,
     is_connected |-> FALSE,
     use_fakeredis |-> fakeredis_available,
     cache_hits |-> 0, cache_misses |-> 0, cache_sets |-> 0, cache_deletes |-> 0]

\* FallbackRedisManager.connect (lines 67-87); ok: the ping succeeds
FallbackConnect(m, ok) ==
    IF m.use_fakeredis
    THEN IF ok
         THEN [m EXCEPT !.fake_redis = [present |-> TRUE, data |-> EmptyDict,
                                        reachable |-> TRUE],
                        !.is_connected = TRUE]
         ELSE [m EXCEPT !.fake_redis = [present |-> TRUE, data |-> EmptyDict,
                                        reachable |-> FALSE],
                        !.use_fakeredis = FALSE,
                        !.memory_cache = EmptyDict,
                        !.is_connected = TRUE]
    ELSE [m EXCEPT !.memory_cache = EmptyDict, !.is_connected = TRUE]

\* FallbackRedisManager.connect (lines 67-87) when FakeRedis() itself may raise
\* (line 72): self.fake_redis then stays None
FallbackConnectWith(m, backend) ==
    IF m.use_fakeredis /\ backend = "construct_fails"
    THEN [m EXCEPT !.use_fakeredis = FALSE, !.memory_cache = EmptyDict,
                   !.is_connected = TRUE]
    ELSE FallbackConnect(m, backend = "up")

\* if self.use_fakeredis and self.fake_redis
UsesFakeRedis(m) == m.use_fakeredis /\ m.fake_redis.present

\* FallbackRedisManager.set (lines 104-140)
FallbackSet(m, key, value, ttl, ok) ==
    LET cache_key == MakeKey(key)
        t == EffectiveTtl(ttl)
    IN  IF UsesFakeRedis(m)
        THEN IF SetexAccepted(t, ok)
             THEN [self |-> [m EXCEPT
                       !.fake_redis.data =
                           RedisSetex(@, cache_key, t, OrjsonDumps(NewCacheEntry(value, t))),
                       !.cache_sets = @ + 1],
                   ret |-> TRUE]
             ELSE [self |-> m, ret |-> FALSE]
        ELSE [self |-> [m EXCEPT
                  !.memory_cache =
                      DictSet(@, cache_key,
                              [value |-> value, expires_at |-> now + t,
                               created_at |-> now, access_count |-> 0]),
                  !.cache_sets = @ + 1],
              ret |-> TRUE]

\* FallbackRedisManager.get (lines 142-182): the value returned
FallbackGetResult(m, key, ok) ==
    LET cache_key == MakeKey(key)
    IN  IF ~ok THEN Absent
        ELSE IF UsesFakeRedis(m)
        THEN IF RedisLive(m.fake_redis.data, cache_key)
             THEN Present(OrjsonLoads(m.fake_redis.data[cache_key].value).data)
             ELSE Absent
        ELSE IF cache_key \in DOMAIN m.memory_cache
                /\ m.memory_cache[cache_key].expires_at > now
             THEN Present(m.memory_cache[cache_key].value)
             ELSE Absent

\* FallbackRedisManager.get without line 176: an expired entry of the memory
\* cache is deleted and no miss is counted
FallbackGet_ExpiredNotCounted(m, key, ok) ==
    LET cache_key == MakeKey(key)
        result == FallbackGetResult(m, key, ok)
        counted == IF result.hit
                   THEN [m EXCEPT !.cache_hits = @ + 1]
                   ELSE [m EXCEPT !.cache_misses = @ + 1]
    IN  IF ~ok THEN counted
        ELSE IF UsesFakeRedis(m)
        THEN [counted EXCEPT !.fake_redis.data = RedisPurge(@, cache_key)]
        ELSE IF result.hit
        THEN [counted EXCEPT !.memory_cache[cache_key].access_count = @ + 1]
        ELSE IF cache_key \in DOMAIN m.memory_cache
        THEN [m EXCEPT !.memory_cache = DictPop(@, cache_key)]
        ELSE counted

\* FallbackRedisManager.get (lines 142-182): the manager after the call
FallbackGet(m, key, ok) ==
    LET cache_key == MakeKey(key)
        result == FallbackGetResult(m, key, ok)
        counted == IF result.hit
                   THEN [m EXCEPT !.cache_hits = @ + 1]
                   ELSE [m EXCEPT !.cache_misses = @ + 1]
    IN  IF ~ok THEN counted
        ELSE IF UsesFakeRedis(m)
        THEN [counted EXCEPT !.fake_redis.data = RedisPurge(@, cache_key)]
        ELSE IF result.hit
        THEN [counted EXCEPT !.memory_cache[cache_key].access_count = @ + 1]
        ELSE IF cache_key \in DOMAIN m.memory_cache
        THEN [counted EXCEPT !.memory_cache = DictPop(@, cache_key)]
        ELSE counted

\* FallbackRedisManager._calculate_hit_rate (lines 363-366)
calculate_hit_rate(m) == HitRate(m.cache_hits, m.cache_misses)

\* FallbackRedisManager.get_stats (lines 266-302), the fields on hits and
\* misses; ok: fake_redis.keys() does not raise
FallbackGetStats(m, ok) ==
    IF UsesFakeRedis(m) /\ ~ok
    THEN [hit_rate |-> <<0, 1>>, keyspace_hits |-> 0, keyspace_misses |-> 0]
    ELSE [hit_rate |-> calculate_hit_rate(m),
          keyspace_hits |-> m.cache_hits,
          keyspace_misses |-> m.cache_misses]

\* FallbackRedisManager.health_check line 376
FallbackCacheType(m) == IF m.use_fakeredis THEN "fakeredis" ELSE "memory"

\* RedisManager.__init__
NewRedisManager ==
    [async_redis |-> [data |-> EmptyDict],
     is_connected |-> FALSE,
     fallback_cache |-> EmptyDict,
     cache_hits |-> 0, cache_misses |-> 0, cache_sets |-> 0, cache_deletes |-> 0]

\* RedisManager.connect (lines 63-96)
RedisManagerConnect(m, reachable) == [m EXCEPT !.is_connected = reachable]

\* RedisManager.set (lines 114-151); _update_key_metrics touches only its
\* own metrics key and swallows its errors
RedisManagerSet(m, key, value, ttl, ok) ==
    LET cache_key == MakeKey(key)
        t == EffectiveTtl(ttl)
    IN  IF m.is_connected
        THEN IF SetexAccepted(t, ok)
             THEN [self |-> [m EXCEPT
                       !.async_redis.data =
                           RedisSetex(@, cache_key, t, OrjsonDumps(NewCacheEntry(value, t))),
                       !.cache_sets = @ + 1],
                   ret |-> TRUE]
             ELSE [self |-> m, ret |-> FALSE]
        ELSE [self |-> [m EXCEPT
                  !.fallback_cache =
                      DictSet(@, cache_key, [value |-> value, expires_at |-> now + t]),
                  !.cache_sets = @ + 1],
              ret |-> TRUE]

\* RedisManager.get (lines 153-194): the value returned
RedisManagerGetResult(m, key, ok) ==
    LET cache_key == MakeKey(key)
    IN  IF ~ok THEN Absent
        ELSE IF m.is_connected
        THEN IF RedisLive(m.async_redis.data, cache_key)
             THEN Present(OrjsonLoads(m.async_redis.data[cache_key].value).data)
             ELSE Absent
        ELSE IF cache_key \in DOMAIN m.fallback_cache
                /\ m.fallback_cache[cache_key].expires_at > now
             THEN Present(m.fallback_cache[cache_key].value)
             ELSE Absent

\* RedisManager.get (lines 153-194): the manager after the call
RedisManagerGet(m, key, ok) ==
    LET result == RedisManagerGetResult(m, key, ok)
        counted == IF result.hit
                   THEN [m EXCEPT !.cache_hits = @ + 1]
                   ELSE [m EXCEPT !.cache_misses = @ + 1]
    IN  IF ok /\ m.is_connected
        THEN [counted EXCEPT !.async_redis.data = RedisPurge(@, MakeKey(key))]
        ELSE counted

\* RedisManager.get lines 163-172: the task it starts on a hit in Redis, with
\* the entry as read and access_count, last_accessed updated
AccessMetadataTask(m, key) ==
    LET cache_key == MakeKey(key)
        cache_entry == OrjsonLoads(m.async_redis.data[cache_key].value)
    IN  [cache_key |-> cache_key,
         cache_entry |-> [cache_entry EXCEPT !.access_count = @ + 1,
                                             !.last_accessed = now],
         pc |-> "ttl", ttl |-> 0]

\* Redis TTL: seconds left, -2 when the key does not exist
RedisTtl(data, key) == IF RedisLive(data, key) THEN data[key].expire_at - now ELSE -2

\* the in-memory twins of SpecTwin, before connect()
NoTwin == [simple |-> NewSimpleRedisManager,
           fallback |-> NewFallbackRedisManager(FALSE)]

\* no manual operation has returned yet
NoReply == [kind |-> "none"]

-----------------------------------------------------------------------------
(* fetch_category_news                                                     *)

RunIds == 1..MaxRuns

NoSlot == <<0, 0>>

IdleRun ==
    [pc |-> "idle", category |-> "", manual |-> FALSE, slot |-> NoSlot,
     fetched |-> "", articles |-> <<>>, ttl |-> 0, current_time |-> 0,
     cancel |-> FALSE, cache_success |-> "none", result |-> "none"]

\* what the category's generator (generiraj_hrvatska_vijesti, ...) does:
\*   "articles"   returns a list of articles
\*   "empty"      returns an empty list
\*   "none"       returns None (no feed could be read)
\*   "exception"  raises (each generator re-raises what it catches)
FetcherOutcomes == {"articles", "empty", "none", "exception"}

\* generiraj_vijesti (news_service.py 682-762): the first element of the pair
\* it returns.  Its body is one try block whose except branch (761-762)
\* returns a text, so no exception leaves it.
\*   "articles"     formatted NASLOV/Izvor blocks
\*   "empty"        the empty string
\*   "unavailable"  "Trenutno nije moguce dohvatiti vijesti ..."
\*   "error_text"   "Doslo je do pogreske: ..."
generiraj_vijesti(outcome) ==
    CASE outcome = "articles" -> "articles"
      [] outcome = "empty" -> "empty"
      [] outcome = "none" -> "unavailable"
      [] outcome = "exception" -> "error_text"

\* line 71: result and not result.startswith("Trenutno nije moguce")
ResultUsable(fetched) == fetched # "empty" /\ fetched # "unavailable"

\* parse_news_content (news_service.py 764-): a list with one dict per NASLOV
\* block; i names the fetch the text came from
parse_news_content(fetched, i) ==
    IF fetched = "articles" THEN <<[naslov |-> i]>> ELSE <<>>

\* lines 85-86
CountSuccess(stats, category) ==
    [stats EXCEPT !.successful_refreshes = @ + 1,
                  !.category_stats[category].success = @ + 1]

\* lines 99-100 without line 100
CountFailure_GlobalOnly(stats, category) ==
    [stats EXCEPT !.failed_refreshes = @ + 1]

\* lines 99-100
CountFailure(stats, category) ==
    [stats EXCEPT !.failed_refreshes = @ + 1,
                  !.category_stats[category].failed = @ + 1]

\* line 105
CountTotal(stats) == [stats EXCEPT !.total_refreshes = @ + 1]

InFlight(r) == r.pc \in {"setex_news", "setex_timestamp"}

\* the frame of a run that has ended with `result`
Ended(r, cache_success, result) ==
    [r EXCEPT !.pc = "done", !.slot = NoSlot, !.articles = <<>>, !.ttl = 0,
              !.current_time = 0, !.cancel = FALSE,
              !.cache_success = cache_success, !.result = result]

\* lines 79-88 and 104-105: set_news returned True
ReturnTrue(i, frame) ==
    /\ refresh_stats' = CountTotal(CountSuccess(refresh_stats, frame.category))
    /\ runs' = [runs EXCEPT ![i] = Ended(frame, "true", "true")]

\* line 79 ignored: the run is counted and reported as a success whatever
\* set_news returned
ReturnFalse_IgnoreCacheSuccess(i, frame, cache_success) ==
    /\ refresh_stats' = CountTotal(CountSuccess(refresh_stats, frame.category))
    /\ runs' = [runs EXCEPT ![i] = Ended(frame, cache_success, "true")]

\* lines 89-90 or 91-92, then 94-102 (the except branch) and 104-105 (finally)
ReturnFalse(i, frame, cache_success) ==
    /\ refresh_stats' = CountTotal(CountFailure(refresh_stats, frame.category))
    /\ runs' = [runs EXCEPT ![i] = Ended(frame, cache_success, "false")]

\* lines 61-105 up to the first suspension inside set_news.  generiraj_vijesti
\* and parse_news_content are synchronous, so nothing interleaves before it.
fetch_category_news(i, category, manual, slot, outcome) ==
    LET fetched == generiraj_vijesti(outcome)
        frame == [IdleRun EXCEPT !.category = category, !.manual = manual,
                                 !.fetched = fetched]
        articles == parse_news_content(fetched, i)
        ttl == get_cache_ttl(category)
    IN  IF ~ResultUsable(fetched)
        THEN /\ ReturnFalse(i, frame, "none")
             /\ UNCHANGED simple_cache
        ELSE IF simple_cache.fake_redis.present
        THEN /\ runs' = [runs EXCEPT ![i] =
                    [frame EXCEPT !.pc = "setex_news", !.slot = slot,
                                  !.articles = articles, !.ttl = ttl,
                                  !.current_time = now]]
             /\ UNCHANGED <<refresh_stats, simple_cache>>
        ELSE /\ simple_cache' = MemorySetNews(simple_cache, category, articles, ttl)
             /\ ReturnTrue(i, frame)

\* set_news line 66 completes: on an error set_news returns False (84-86)
\* and fetch_category_news raises "Cache operation failed" (line 90)
set_news_setex_news(i, ok) ==
    /\ runs[i].pc = "setex_news"
    /\ ~runs[i].cancel
    /\ IF Served(simple_cache, ok)
       THEN /\ simple_cache' = SetexNews(simple_cache, runs[i].category,
                                         runs[i].articles, runs[i].ttl)
            /\ runs' = [runs EXCEPT ![i].pc = "setex_timestamp"]
            /\ UNCHANGED refresh_stats
       ELSE /\ ReturnFalse(i, runs[i], "false")
            /\ UNCHANGED simple_cache
    /\ UNCHANGED <<now, is_running, jobs, otherManagers>>

\* set_news line 67 completes; set_news returns True (line 82) or False
set_news_setex_timestamp(i, ok) ==
    /\ runs[i].pc = "setex_timestamp"
    /\ ~runs[i].cancel
    /\ IF Served(simple_cache, ok)
       THEN /\ simple_cache' = SetexTimestamp(simple_cache, runs[i].category,
                                              runs[i].current_time, runs[i].ttl)
            /\ ReturnTrue(i, runs[i])
       ELSE /\ ReturnFalse(i, runs[i], "false")
            /\ UNCHANGED simple_cache
    /\ UNCHANGED <<now, is_running, jobs, otherManagers>>

\* asyncio.CancelledError thrown into the awaited setex.  It is no Exception,
\* so neither set_news (84) nor fetch_category_news (94) catches it; only the
\* finally clause (104-105) runs.  The awaited command may have been applied.
fetch_category_news_cancelled(i, applied) ==
    /\ InFlight(runs[i])
    /\ runs[i].cancel
    /\ simple_cache' =
          IF ~applied THEN simple_cache
          ELSE IF runs[i].pc = "setex_news"
          THEN SetexNews(simple_cache, runs[i].category, runs[i].articles, runs[i].ttl)
          ELSE SetexTimestamp(simple_cache, runs[i].category,
                              runs[i].current_time, runs[i].ttl)
    /\ refresh_stats' = CountTotal(refresh_stats)
    /\ runs' = [runs EXCEPT ![i] = Ended(@, "none", "cancelled")]
    /\ UNCHANGED <<now, is_running, jobs, otherManagers>>

-----------------------------------------------------------------------------
(* start_scheduler / stop_scheduler and the APScheduler jobs               *)

\* job_id = f"{category}_{time_slot.replace(':', '')}"
JobId(category, time_slot) == <<category, time_slot>>

AllJobs ==
    UNION {{JobId(c, category_priorities[c].times[k]) :
                k \in 1..Len(category_priorities[c].times)} : c \in Categories}

SlotSeconds(time_slot) == time_slot[1] * 3600 + time_slot[2] * 60

\* CronTrigger(hour, minute).get_next_fire_time: first matching time >= from
NextFireTime(time_slot, from) ==
    LET candidate == (from - (from % 86400)) + SlotSeconds(time_slot)
    IN  IF candidate >= from THEN candidate ELSE candidate + 86400

\* line 133: the text f"{category}_{time_slot.replace(':', '')}", the
\* category followed by "_" and the four digits of the time slot
JobIdString(job) ==
    <<job[1], "_", job[2][1] \div 10, job[2][1] % 10, job[2][2] \div 10, job[2][2] % 10>>

\* lines 137-145: add_job(..., id=job_id, replace_existing=True) on the jobs js
AddJob(js, category, time_slot) ==
    DictSet(js, JobId(category, time_slot), NextFireTime(time_slot, now))

\* the last time slot listed for category c
LastSlot(c) == category_priorities[c].times[Len(category_priorities[c].times)]

\* start_scheduler with the category alone as job id: each add_job of a
\* category replaces the one before
StartScheduler_IdByCategory(s) ==
    IF s.is_running
    THEN s
    ELSE [s EXCEPT !.jobs = [j \in {JobId(c, LastSlot(c)) : c \in Categories}
                                |-> NextFireTime(j[2], now)],
                   !.is_running = TRUE]

\* what start_scheduler and stop_scheduler read and write: the flag, the jobs
\* of self.scheduler and the counters
Lifecycle == [is_running |-> is_running, jobs |-> jobs, refresh_stats |-> refresh_stats]

\* start_scheduler without lines 120-122: the jobs are added again, replacing
\* the ones registered
StartScheduler_NoGuard(s) ==
    [s EXCEPT !.jobs = [j \in AllJobs |-> NextFireTime(j[2], now)],
              !.is_running = TRUE]

\* start_scheduler adding only the jobs whose time slot is still ahead on
\* the day of the call
StartScheduler_TodayOnly(s) ==
    IF s.is_running
    THEN s
    ELSE [s EXCEPT !.jobs = [j \in {k \in AllJobs : SlotSeconds(k[2]) >= now % 86400}
                                |-> NextFireTime(j[2], now)],
                   !.is_running = TRUE]

\* start_scheduler (lines 118-161) on the flag, the jobs and the counters
StartScheduler(s) ==
    IF s.is_running
    THEN s
    ELSE [s EXCEPT !.jobs = [j \in AllJobs |-> NextFireTime(j[2], now)],
                   !.is_running = TRUE]

\* stop_scheduler without line 170: the flag is cleared and the scheduler is
\* not shut down
StopScheduler_NoShutdown(s) ==
    IF ~s.is_running THEN s ELSE [s EXCEPT !.is_running = FALSE]

\* stop_scheduler starting the statistics afresh
StopScheduler_ResetStats(s) ==
    IF ~s.is_running
    THEN s
    ELSE [s EXCEPT !.jobs = EmptyDict, !.is_running = FALSE,
                   !.refresh_stats = InitialRefreshStats]

\* stop_scheduler (lines 163-175) on the flag, the jobs and the counters;
\* scheduler.shutdown() empties the job store
StopScheduler(s) ==
    IF ~s.is_running
    THEN s
    ELSE [s EXCEPT !.jobs = EmptyDict, !.is_running = FALSE]

\* lines 118-161
start_scheduler ==
    /\ is_running' = StartScheduler(Lifecycle).is_running
    /\ jobs' = StartScheduler(Lifecycle).jobs
    /\ refresh_stats' = StartScheduler(Lifecycle).refresh_stats
    /\ UNCHANGED <<now, runs, simple_cache, otherManagers>>

\* lines 163-175.  scheduler.shutdown() also has the AsyncIOExecutor cancel
\* the futures of the jobs still running.
stop_scheduler ==
    /\ is_running' = StopScheduler(Lifecycle).is_running
    /\ jobs' = StopScheduler(Lifecycle).jobs
    /\ refresh_stats' = StopScheduler(Lifecycle).refresh_stats
    /\ runs' = IF ~is_running
               THEN runs
               ELSE [i \in RunIds |->
                       IF InFlight(runs[i]) /\ ~runs[i].manual
                       THEN [runs[i] EXCEPT !.cancel = TRUE] ELSE runs[i]]
    /\ UNCHANGED <<now, simple_cache, otherManagers>>

\* job.id.split('_')[0]
JobCategory(job) == job[1]

\* job.name (line 135)
JobName(job) == <<category_priorities[job[1]].priority, job[1], job[2]>>

\* get_schedule_status lines 186-200: the earliest next_run_time among the
\* jobs of each category that has a job
NextRuns ==
    [c \in {JobCategory(j) : j \in DOMAIN jobs} |->
        CHOOSE t \in {jobs[j] : j \in {k \in DOMAIN jobs : JobCategory(k) = c}} :
            \A j \in DOMAIN jobs : JobCategory(j) = c => t <= jobs[j]]

\* get_schedule_status answering in the running form whatever is_running is
get_schedule_status_Zeroed ==
    [is_running |-> is_running,
     total_jobs |-> Cardinality(DOMAIN jobs),
     next_runs_by_category |-> [c \in DOMAIN NextRuns |-> Isoformat(NextRuns[c])],
     category_priorities |-> category_priorities,
     refresh_stats |-> refresh_stats,
     all_jobs |-> {[id |-> j, name |-> JobName(j), next_run |-> Isoformat(jobs[j]),
                    category |-> JobCategory(j)] : j \in DOMAIN jobs}]

\* get_schedule_status (lines 177-213)
get_schedule_status ==
    IF ~is_running
    THEN [is_running |-> FALSE, message |-> "Smart scheduler is not running"]
    ELSE [is_running |-> TRUE,
          total_jobs |-> Cardinality(DOMAIN jobs),
          next_runs_by_category |-> [c \in DOMAIN NextRuns |-> Isoformat(NextRuns[c])],
          category_priorities |-> category_priorities,
          refresh_stats |-> refresh_stats,
          all_jobs |-> {[id |-> j, name |-> JobName(j), next_run |-> Isoformat(jobs[j]),
                         category |-> JobCategory(j)] : j \in DOMAIN jobs}]

\* the text "HH:MM" of a time slot as its character codes: a digit d is
\* 48 + d and the colon is 58
TimeString(time_slot) ==
    <<48 + (time_slot[1] \div 10), 48 + (time_slot[1] % 10), 58,
      48 + (time_slot[2] \div 10), 48 + (time_slot[2] % 10)>>

\* str < str: the first differing character decides, a proper prefix is less
RECURSIVE StrLess(_, _)
StrLess(a, b) ==
    IF b = <<>> THEN FALSE
    ELSE IF a = <<>> THEN TRUE
    ELSE IF Head(a) # Head(b) THEN Head(a) < Head(b)
    ELSE StrLess(Tail(a), Tail(b))

\* lines 219-227: one entry per category and time slot, in the order of the
\* catalog
RECURSIVE ScheduleEntries(_)
ScheduleEntries(categories) ==
    IF categories = <<>> THEN <<>>
    ELSE LET category == Head(categories)
             config == category_priorities[category]
         IN  [k \in 1..Len(config.times) |->
                 [time |-> config.times[k],
                  category |-> category,
                  priority |-> config.priority,
                  frequency |-> <<config.frequency, "x/day">>]]
             \o ScheduleEntries(Tail(categories))

\* list.sort(key=...) is stable: an entry goes after the entries whose key
\* is not greater
RECURSIVE InsertByTime(_, _)
InsertByTime(sorted, entry) ==
    IF sorted = <<>> THEN <<entry>>
    ELSE IF StrLess(TimeString(entry.time), TimeString(Head(sorted).time))
    THEN <<entry>> \o sorted
    ELSE <<Head(sorted)>> \o InsertByTime(Tail(sorted), entry)

RECURSIVE SortByTime(_, _)
SortByTime(sorted, rest) ==
    IF rest = <<>> THEN sorted
    ELSE SortByTime(InsertByTime(sorted, Head(rest)), Tail(rest))

\* get_today_schedule without line 230
get_today_schedule_Unsorted == ScheduleEntries(CategoryOrder)

\* get_today_schedule (lines 215-231)
get_today_schedule == SortByTime(<<>>, ScheduleEntries(CategoryOrder))

IdleIds == {i \in RunIds : runs[i].pc = "idle"}

FirstIdle == CHOOSE i \in IdleIds : \A j \in IdleIds : i <= j

\* max_instances=1 (line 145): instances of this job still running
JobInstances(job) ==
    {i \in RunIds : InFlight(runs[i]) /\ ~runs[i].manual
                    /\ runs[i].category = job[1] /\ runs[i].slot = job[2]}

\* the scheduler submits a registered job to its executor (lines 138-146);
\* the clock is abstracted: a registered job may come due at any step
ScheduledTrigger(job, outcome) ==
    /\ is_running
    /\ job \in DOMAIN jobs
    /\ JobInstances(job) = {}
    /\ IdleIds # {}
    /\ fetch_category_news(FirstIdle, job[1], FALSE, job[2], outcome)
    /\ UNCHANGED <<now, is_running, jobs, otherManagers>>

\* manual_refresh_category without lines 235-237: fetch_category_news runs for
\* a category outside the catalog; the fetch fails, line 99 counts it, line
\* 100 raises on the missing key and line 105 counts the run
manual_refresh_category_Unchecked(category, outcome) ==
    IF category \notin Categories
    THEN /\ IdleIds # {}
         /\ refresh_stats' = CountTotal(CountFailure_GlobalOnly(refresh_stats, category))
         /\ runs' = [runs EXCEPT ![FirstIdle] =
                       Ended([IdleRun EXCEPT !.category = category, !.manual = TRUE],
                             "none", "false")]
         /\ UNCHANGED <<now, is_running, jobs, simple_cache, otherManagers>>
    ELSE /\ IdleIds # {}
         /\ fetch_category_news(FirstIdle, category, TRUE, NoSlot, outcome)
         /\ UNCHANGED <<now, is_running, jobs, otherManagers>>

\* lines 233-240
manual_refresh_category(category, outcome) ==
    IF category \notin Categories
    THEN UNCHANGED vars
    ELSE /\ IdleIds # {}
         /\ fetch_category_news(FirstIdle, category, TRUE, NoSlot, outcome)
         /\ UNCHANGED <<now, is_running, jobs, otherManagers>>

-----------------------------------------------------------------------------

\* the categories an operator asks for; "Tehnologija" is not in the catalog
ManualInputs == {"Hrvatska", "Regija", "Tehnologija"}

\* the registered jobs that come due in the behaviours of Spec: two slots of
\* one category and a slot of another tier
FiringJobs ==
    {JobId("Hrvatska", <<2, 0>>), JobId("Hrvatska", <<6, 0>>), JobId("Sport", <<12, 0>>)}

Init ==
    /\ now = 0
    /\ is_running = FALSE
    /\ refresh_stats = InitialRefreshStats
    /\ jobs = EmptyDict
    /\ runs = [i \in RunIds |-> IdleRun]
    /\ manager = "simple"
    /\ \E connected \in BOOLEAN, available \in BOOLEAN :
          /\ simple_cache = IF connected
                            THEN SimpleConnect(NewSimpleRedisManager, available)
                            ELSE NewSimpleRedisManager
          /\ fallback_redis_manager = NewFallbackRedisManager(available)
    /\ redis_manager = NewRedisManager
    /\ tasks = <<>>
    /\ last_set = EmptyDict
    /\ twin = NoTwin
    /\ reply = NoReply

Next ==
    \/ start_scheduler
    \/ stop_scheduler
    \/ \E job \in FiringJobs, outcome \in FetcherOutcomes : ScheduledTrigger(job, outcome)
    \/ \E category \in ManualInputs, outcome \in FetcherOutcomes :
          manual_refresh_category(category, outcome)
    \/ \E i \in RunIds, ok \in BOOLEAN : set_news_setex_news(i, ok)
    \/ \E i \in RunIds, ok \in BOOLEAN : set_news_setex_timestamp(i, ok)
    \/ \E i \in RunIds, applied \in BOOLEAN : fetch_category_news_cancelled(i, applied)

Spec == Init /\ [][Next]_vars

-----------------------------------------------------------------------------
(* SpecDay: the clock runs in quarters of an hour, every registered job    *)
(* fires when it is due, every fetch and every cache call succeeds, and    *)
(* nothing but the scheduler writes the cache.                             *)

Quarter == 15 * 60

\* a route reads the cache (admin.py 25, 77; main.py 187)
get_news(category, ok) ==
    /\ manager = "simple"
    /\ simple_cache.cache_hits + simple_cache.cache_misses < MaxGets
    /\ simple_cache' = GetNews(simple_cache, category, ok)
    /\ UNCHANGED <<now, is_running, refresh_stats, jobs, runs, otherManagers>>

\* a job of category c is due, or a run for c has not finished
RefreshPending(c) ==
    \/ \E j \in DOMAIN jobs : j[1] = c /\ jobs[j] <= now
    \/ \E i \in RunIds : InFlight(runs[i]) /\ runs[i].category = c

Tick ==
    /\ is_running
    /\ now + Quarter <= MaxDays * 86400
    /\ \A c \in Categories : ~RefreshPending(c)
    /\ now' = now + Quarter
    /\ UNCHANGED <<is_running, refresh_stats, jobs, runs, simple_cache, otherManagers>>

ReusableIds == {i \in RunIds : ~InFlight(runs[i])}

FirstReusable == CHOOSE i \in ReusableIds : \A j \in ReusableIds : i <= j

\* self.scheduler finds the job due in its job store, submits it (lines
\* 138-146) and moves its next_run_time to the next day
CronFire(job) ==
    /\ job \in DOMAIN jobs
    /\ jobs[job] <= now
    /\ JobInstances(job) = {}
    /\ ReusableIds # {}
    /\ fetch_category_news(FirstReusable, job[1], FALSE, job[2], "articles")
    /\ jobs' = [jobs EXCEPT ![job] = NextFireTime(job[2], jobs[job] + 1)]
    /\ UNCHANGED <<now, is_running, otherManagers>>

NextDay ==
    \/ start_scheduler
    \/ Tick
    \/ \E job \in AllJobs : CronFire(job)
    \/ \E i \in RunIds : set_news_setex_news(i, TRUE)
    \/ \E i \in RunIds : set_news_setex_timestamp(i, TRUE)
    \/ \E category \in Categories : get_news(category, TRUE)

SpecDay == Init /\ [][NextDay]_vars

-----------------------------------------------------------------------------
(* SpecLife: the scheduler is started and stopped while the clock runs in  *)
(* hours; registered jobs fire when due, an operator refreshes by hand,    *)
(* every fetch returns articles and every cache call that completes        *)
(* succeeds.                                                               *)

Hour == 60 * 60

MaxHours == 3

\* an hour passes; a running scheduler has first fired the jobs that are due
LifeTick ==
    /\ now + Hour <= MaxHours * Hour
    /\ \A j \in DOMAIN jobs : jobs[j] > now
    /\ now' = now + Hour
    /\ UNCHANGED <<is_running, refresh_stats, jobs, runs, simple_cache, otherManagers>>

MaxRefreshes == 2

\* CronFire, for as long as fewer than MaxRefreshes runs have ended
LifeFire(job) ==
    /\ refresh_stats.total_refreshes < MaxRefreshes
    /\ CronFire(job)

NextLife ==
    \/ start_scheduler
    \/ stop_scheduler
    \/ LifeTick
    \/ \E job \in AllJobs : LifeFire(job)
    \/ \E category \in ManualInputs : manual_refresh_category(category, "articles")
    \/ \E i \in RunIds : set_news_setex_news(i, TRUE)
    \/ \E i \in RunIds : set_news_setex_timestamp(i, TRUE)
    \/ \E i \in RunIds, applied \in BOOLEAN : fetch_category_news_cancelled(i, applied)

SpecLife == Init /\ [][NextLife]_vars

-----------------------------------------------------------------------------
(* SpecManual: an operator refreshes by hand, one category or one priority *)
(* tier at a time, through the admin routes.  Each awaited cache call      *)
(* returns before any other coroutine runs, so a route is one step.        *)

\* fetch_category_news (lines 61-105) from call to return, on the counters
\* and the cache in st; ok: the cache backend accepts the writes
FetchAndCache(st, category, outcome, ok) ==
    LET fetched == generiraj_vijesti(outcome)
        call == SetNews(st.simple_cache, category, parse_news_content(fetched, 1),
                        get_cache_ttl(category), ok, ok)
    IN  IF ~ResultUsable(fetched)
        THEN [refresh_stats |-> CountTotal(CountFailure(st.refresh_stats, category)),
              simple_cache |-> st.simple_cache, ret |-> FALSE]
        ELSE IF call.ret
        THEN [refresh_stats |-> CountTotal(CountSuccess(st.refresh_stats, category)),
              simple_cache |-> call.self, ret |-> TRUE]
        ELSE [refresh_stats |-> CountTotal(CountFailure(st.refresh_stats, category)),
              simple_cache |-> call.self, ret |-> FALSE]

\* manual_refresh_category (lines 233-240) from call to return, with the
\* catalog `priorities`
ManualRefreshCategory(priorities, st, category, outcome, ok) ==
    IF category \notin DOMAIN priorities
    THEN [refresh_stats |-> st.refresh_stats, simple_cache |-> st.simple_cache,
          ret |-> FALSE]
    ELSE FetchAndCache(st, category, outcome, ok)

\* lines 251-253: the loop over `categories`, filling `results`
RECURSIVE RefreshEach(_, _, _, _, _, _)
RefreshEach(priorities, st, categories, results, outcomes, ok) ==
    IF categories = <<>>
    THEN [refresh_stats |-> st.refresh_stats, simple_cache |-> st.simple_cache,
          results |-> results]
    ELSE LET category == Head(categories)
             call == ManualRefreshCategory(priorities, st, category,
                                           outcomes[category], ok)
         IN  RefreshEach(priorities,
                         [refresh_stats |-> call.refresh_stats,
                          simple_cache |-> call.simple_cache],
                         Tail(categories), DictSet(results, category, call.ret),
                         outcomes, ok)

\* manual_refresh_priority that refreshes only the first category of the tier
ManualRefreshPriority_FirstOnly(priorities, st, priority, outcomes, ok) ==
    IF priority \notin {"high", "medium", "low"}
    THEN [refresh_stats |-> st.refresh_stats, simple_cache |-> st.simple_cache,
          ret |-> [error |-> "Invalid priority. Use: high, medium, low"]]
    ELSE LET categories ==
                 SelectSeq(CategoryOrder,
                           LAMBDA c : c \in DOMAIN priorities
                                      /\ priorities[c].priority = priority)
             loop == RefreshEach(priorities, st, SubSeq(categories, 1, 1), EmptyDict,
                                 outcomes, ok)
         IN  [refresh_stats |-> loop.refresh_stats,
              simple_cache |-> loop.simple_cache,
              ret |-> [priority |-> priority,
                       categories_refreshed |-> categories,
                       results |-> loop.results,
                       successful |->
                           Cardinality({c \in DOMAIN loop.results : loop.results[c]}),
                       failed |->
                           Cardinality({c \in DOMAIN loop.results : ~loop.results[c]})]]

\* manual_refresh_priority answering an unknown tier as a tier without
\* categories
ManualRefreshPriority_NoTierCheck(priorities, st, priority, outcomes, ok) ==
    LET categories ==
            SelectSeq(CategoryOrder,
                      LAMBDA c : c \in DOMAIN priorities
                                 /\ priorities[c].priority = priority)
        loop == RefreshEach(priorities, st, categories, EmptyDict, outcomes, ok)
    IN  [refresh_stats |-> loop.refresh_stats,
         simple_cache |-> loop.simple_cache,
         ret |-> [priority |-> priority,
                  categories_refreshed |-> categories,
                  results |-> loop.results,
                  successful |->
                      Cardinality({c \in DOMAIN loop.results : loop.results[c]}),
                  failed |->
                      Cardinality({c \in DOMAIN loop.results : ~loop.results[c]})]]

\* manual_refresh_priority (lines 242-262) from call to return
ManualRefreshPriority(priorities, st, priority, outcomes, ok) ==
    IF priority \notin {"high", "medium", "low"}
    THEN [refresh_stats |-> st.refresh_stats, simple_cache |-> st.simple_cache,
          ret |-> [error |-> "Invalid priority. Use: high, medium, low"]]
    ELSE LET categories ==
                 SelectSeq(CategoryOrder,
                           LAMBDA c : c \in DOMAIN priorities
                                      /\ priorities[c].priority = priority)
             loop == RefreshEach(priorities, st, categories, EmptyDict, outcomes, ok)
         IN  [refresh_stats |-> loop.refresh_stats,
              simple_cache |-> loop.simple_cache,
              ret |-> [priority |-> priority,
                       categories_refreshed |-> categories,
                       results |-> loop.results,
                       successful |->
                           Cardinality({c \in DOMAIN loop.results : loop.results[c]}),
                       failed |->
                           Cardinality({c \in DOMAIN loop.results : ~loop.results[c]})]]

\* the counters and the cache a manual operation works on
ManualState == [refresh_stats |-> refresh_stats, simple_cache |-> simple_cache]

\* runs counted in one behaviour of SpecManual before the last operation
MaxBatch == 2

\* what the operator asks for; "urgent" is no tier
PriorityInputs == {"high", "medium", "low", "urgent"}

\* per category, what its fetch does during one operation
BatchOutcomes == [Categories -> {"articles", "none"}]

\* admin.py 117-120: POST /refresh/{priority}
refresh_by_priority(priority, outcomes, ok) ==
    /\ refresh_stats.total_refreshes < MaxBatch
    /\ LET call == ManualRefreshPriority(category_priorities, ManualState, priority,
                                         outcomes, ok)
       IN  /\ refresh_stats' = call.refresh_stats
           /\ simple_cache' = call.simple_cache
           /\ reply' = [kind |-> "refresh_by_priority", asked |-> priority,
                        status |-> 200, body |-> call.ret]
    /\ UNCHANGED <<now, is_running, jobs, runs, fallback_redis_manager, redis_manager,
                   tasks, manager, last_set, twin>>

\* admin.py 122-138: POST /refresh/category/{category}
refresh_category(category, outcome, ok) ==
    /\ refresh_stats.total_refreshes < MaxBatch
    /\ IF category \notin DOMAIN category_priorities
       THEN /\ reply' = [kind |-> "refresh_category", asked |-> category,
                         status |-> 400, body |-> [detail |-> "Unknown category"]]
            /\ UNCHANGED <<refresh_stats, simple_cache>>
       ELSE LET call == ManualRefreshCategory(category_priorities, ManualState,
                                              category, outcome, ok)
            IN  /\ refresh_stats' = call.refresh_stats
                /\ simple_cache' = call.simple_cache
                /\ reply' = [kind |-> "refresh_category", asked |-> category,
                             status |-> 200,
                             body |-> [category |-> category,
                                       success |-> call.ret,
                                       message |-> IF call.ret THEN "successful"
                                                   ELSE "failed",
                                       priority |->
                                           category_priorities[category].priority,
                                       timestamp |-> Isoformat(now)]]
    /\ UNCHANGED <<now, is_running, jobs, runs, fallback_redis_manager, redis_manager,
                   tasks, manager, last_set, twin>>

NextManual ==
    \/ \E priority \in PriorityInputs, outcomes \in BatchOutcomes, ok \in BOOLEAN :
          refresh_by_priority(priority, outcomes, ok)
    \/ \E category \in ManualInputs, outcome \in {"articles", "none"}, ok \in BOOLEAN :
          refresh_category(category, outcome, ok)

SpecManual == Init /\ [][NextManual]_vars

-----------------------------------------------------------------------------
(* SpecCache: one cache manager, in either of its backend modes, under     *)
(* set, get and delete calls while the clock runs in seconds.  last_set    *)
(* remembers, for each stored key, the last set call that returned True    *)
(* and has not been followed by a failed set or a delete of that key.      *)

\* category names given to SimpleRedisManager
CacheNames == {"Sport", "sport"}

\* keys given to FallbackRedisManager and RedisManager
CacheKeys == {"Sport"}

CacheValues == {<<>>, <<1>>}

CacheTtls == {0, 1, 2}

SeqRemove(s, n) == SubSeq(s, 1, n - 1) \o SubSeq(s, n + 1, Len(s))

Remember(key, name, value, ttl, ret) ==
    IF ret
    THEN DictSet(last_set, key, [name |-> name, value |-> value, at |-> now, ttl |-> ttl])
    ELSE DictPop(last_set, key)

ClockTick ==
    /\ now < MaxTime
    /\ now' = now + 1
    /\ UNCHANGED <<schedulerVars, simple_cache, otherManagers>>

\* SimpleRedisManager.set_news called by a route or the scheduler
set_news(category, articles, ttl_seconds, ok1, ok2) ==
    /\ manager = "simple"
    /\ LET call == SetNews(simple_cache, category, articles, ttl_seconds, ok1, ok2)
       IN  /\ simple_cache' = call.self
           /\ last_set' = Remember(NewsKey(category), category, articles,
                                   ttl_seconds, call.ret)
    /\ UNCHANGED <<now, schedulerVars, fallback_redis_manager, redis_manager,
                   tasks, manager, twin, reply>>

\* SimpleRedisManager.clear_category (lines 142-159)
ClearCategory(cache, category, ok) ==
    IF cache.fake_redis.present
    THEN IF Served(cache, ok)
         THEN [self |-> [cache EXCEPT !.fake_redis.data =
                            DictPop(DictPop(@, NewsKey(category)),
                                    TimestampKey(category))],
               ret |-> TRUE]
         ELSE [self |-> cache, ret |-> FALSE]
    ELSE [self |-> [cache EXCEPT !.memory_cache =
                       DictPop(DictPop(@, NewsKey(category)), TimestampKey(category))],
          ret |-> TRUE]

\* SimpleRedisManager.clear_category called by a route
clear_category(category, ok) ==
    /\ manager = "simple"
    /\ simple_cache' = ClearCategory(simple_cache, category, ok).self
    /\ last_set' = DictPop(last_set, NewsKey(category))
    /\ UNCHANGED <<now, schedulerVars, fallback_redis_manager, redis_manager,
                   tasks, manager, twin, reply>>

\* FallbackRedisManager.set
fallback_set(key, value, ttl, ok) ==
    /\ manager = "fallback"
    /\ fallback_redis_manager.cache_sets < MaxSets
    /\ LET call == FallbackSet(fallback_redis_manager, key, value, ttl, ok)
       IN  /\ fallback_redis_manager' = call.self
           /\ last_set' = Remember(MakeKey(key), key, value, EffectiveTtl(ttl), call.ret)
    /\ UNCHANGED <<now, schedulerVars, simple_cache, redis_manager, tasks, manager, twin, reply>>

\* FallbackRedisManager.get
fallback_get(key, ok) ==
    /\ manager = "fallback"
    /\ fallback_redis_manager.cache_hits + fallback_redis_manager.cache_misses < MaxGets
    /\ fallback_redis_manager' = FallbackGet(fallback_redis_manager, key, ok)
    /\ UNCHANGED <<now, schedulerVars, simple_cache, redis_manager, tasks, manager, twin, reply,
                   last_set>>

\* FallbackRedisManager.delete (lines 184-205)
FallbackDelete(m, key, ok) ==
    LET cache_key == MakeKey(key)
        deleted == IF UsesFakeRedis(m)
                   THEN ok /\ cache_key \in DOMAIN m.fake_redis.data
                           /\ RedisLive(m.fake_redis.data, cache_key)
                   ELSE cache_key \in DOMAIN m.memory_cache
        removed == IF UsesFakeRedis(m)
                   THEN IF ok
                        THEN [m EXCEPT !.fake_redis.data = DictPop(@, cache_key)]
                        ELSE m
                   ELSE [m EXCEPT !.memory_cache = DictPop(@, cache_key)]
    IN  [self |-> IF deleted THEN [removed EXCEPT !.cache_deletes = @ + 1]
                  ELSE removed,
         ret |-> deleted]

\* FallbackRedisManager.delete called by a route
fallback_delete(key, ok) ==
    /\ manager = "fallback"
    /\ fallback_redis_manager' = FallbackDelete(fallback_redis_manager, key, ok).self
    /\ last_set' = DictPop(last_set, MakeKey(key))
    /\ UNCHANGED <<now, schedulerVars, simple_cache, redis_manager, tasks, manager, twin, reply>>

\* RedisManager.set
redis_set(key, value, ttl, ok) ==
    /\ manager = "redis"
    /\ redis_manager.cache_sets < MaxSets
    /\ LET call == RedisManagerSet(redis_manager, key, value, ttl, ok)
       IN  /\ redis_manager' = call.self
           /\ last_set' = Remember(MakeKey(key), key, value, EffectiveTtl(ttl), call.ret)
    /\ UNCHANGED <<now, schedulerVars, simple_cache, fallback_redis_manager, tasks,
                   manager, twin, reply>>

\* RedisManager.get; line 172 starts _update_access_metadata on a hit in Redis
redis_get(key, ok) ==
    /\ manager = "redis"
    /\ redis_manager.cache_hits + redis_manager.cache_misses < MaxGets
    /\ Len(tasks) < MaxTasks
    /\ redis_manager' = RedisManagerGet(redis_manager, key, ok)
    /\ tasks' = IF redis_manager.is_connected
                   /\ RedisManagerGetResult(redis_manager, key, ok).hit
                THEN Append(tasks, AccessMetadataTask(redis_manager, key))
                ELSE tasks
    /\ UNCHANGED <<now, schedulerVars, simple_cache, fallback_redis_manager, manager, twin, reply,
                   last_set>>

\* RedisManager.delete (lines 196-217)
RedisManagerDelete(m, key, ok) ==
    LET cache_key == MakeKey(key)
        deleted == IF m.is_connected
                   THEN ok /\ RedisLive(m.async_redis.data, cache_key)
                   ELSE cache_key \in DOMAIN m.fallback_cache
        removed == IF m.is_connected
                   THEN IF ok
                        THEN [m EXCEPT !.async_redis.data = DictPop(@, cache_key)]
                        ELSE m
                   ELSE [m EXCEPT !.fallback_cache = DictPop(@, cache_key)]
    IN  [self |-> IF deleted THEN [removed EXCEPT !.cache_deletes = @ + 1]
                  ELSE removed,
         ret |-> deleted]

\* RedisManager.delete called by a route
redis_delete(key, ok) ==
    /\ manager = "redis"
    /\ redis_manager' = RedisManagerDelete(redis_manager, key, ok).self
    /\ last_set' = DictPop(last_set, MakeKey(key))
    /\ UNCHANGED <<now, schedulerVars, simple_cache, fallback_redis_manager, tasks,
                   manager, twin, reply>>

\* _update_access_metadata line 383: ttl = await self.async_redis.ttl(cache_key)
update_access_metadata_ttl(n, ok) ==
    /\ n \in DOMAIN tasks
    /\ tasks[n].pc = "ttl"
    /\ LET ttl == RedisTtl(redis_manager.async_redis.data, tasks[n].cache_key)
       IN  tasks' = IF ok /\ ttl > 0
                    THEN [tasks EXCEPT ![n].pc = "setex", ![n].ttl = ttl]
                    ELSE SeqRemove(tasks, n)
    /\ UNCHANGED <<now, schedulerVars, simple_cache, fallback_redis_manager,
                   redis_manager, manager, twin, reply, last_set>>

\* _update_access_metadata lines 384-387: the entry is written back
update_access_metadata_setex(n, ok) ==
    /\ n \in DOMAIN tasks
    /\ tasks[n].pc = "setex"
    /\ redis_manager' =
          IF ok
          THEN [redis_manager EXCEPT !.async_redis.data =
                   RedisSetex(@, tasks[n].cache_key, tasks[n].ttl,
                              OrjsonDumps(tasks[n].cache_entry))]
          ELSE redis_manager
    /\ tasks' = SeqRemove(tasks, n)
    /\ UNCHANGED <<now, schedulerVars, simple_cache, fallback_redis_manager, manager, twin, reply,
                   last_set>>

InitCache ==
    /\ now = 0
    /\ is_running = FALSE
    /\ refresh_stats = InitialRefreshStats
    /\ jobs = EmptyDict
    /\ runs = [i \in RunIds |-> IdleRun]
    /\ manager \in {"simple", "fallback", "redis"}
    /\ \E connected \in BOOLEAN, available \in BOOLEAN, backend \in BackendOutcomes :
          /\ simple_cache = IF manager = "simple" /\ connected
                            THEN SimpleConnectWith(NewSimpleRedisManager, available,
                                                   backend)
                            ELSE NewSimpleRedisManager
          /\ fallback_redis_manager =
                IF manager = "fallback" /\ connected
                THEN FallbackConnectWith(NewFallbackRedisManager(available), backend)
                ELSE NewFallbackRedisManager(available)
          /\ redis_manager = IF manager = "redis"
                             THEN RedisManagerConnect(NewRedisManager, connected)
                             ELSE NewRedisManager
    /\ tasks = <<>>
    /\ last_set = EmptyDict
    /\ twin = NoTwin
    /\ reply = NoReply

NextCache ==
    \/ ClockTick
    \/ \E category \in CacheNames, articles \in CacheValues, ttl_seconds \in CacheTtls,
          ok1 \in BOOLEAN, ok2 \in BOOLEAN :
          set_news(category, articles, ttl_seconds, ok1, ok2)
    \/ \E category \in CacheNames, ok \in BOOLEAN : get_news(category, ok)
    \/ \E category \in CacheNames, ok \in BOOLEAN : clear_category(category, ok)
    \/ \E key \in CacheKeys, value \in CacheValues, ttl \in CacheTtls, ok \in BOOLEAN :
          fallback_set(key, value, ttl, ok)
    \/ \E key \in CacheKeys, ok \in BOOLEAN : fallback_get(key, ok)
    \/ \E key \in CacheKeys, ok \in BOOLEAN : fallback_delete(key, ok)
    \/ \E key \in CacheKeys, value \in CacheValues, ttl \in CacheTtls, ok \in BOOLEAN :
          redis_set(key, value, ttl, ok)
    \/ \E key \in CacheKeys, ok \in BOOLEAN : redis_get(key, ok)
    \/ \E key \in CacheKeys, ok \in BOOLEAN : redis_delete(key, ok)
    \/ \E n \in 1..MaxTasks, ok \in BOOLEAN : update_access_metadata_ttl(n, ok)
    \/ \E n \in 1..MaxTasks, ok \in BOOLEAN : update_access_metadata_setex(n, ok)

SpecCache == InitCache /\ [][NextCache]_vars

-----------------------------------------------------------------------------
(* SpecPattern: FallbackRedisManager or RedisManager on its primary path   *)
(* and the same manager on its in-memory path receive the same set and     *)
(* clear_pattern calls; no backend call fails and no time passes.          *)

\* the characters of the texts that occur as prefix, key or pattern
Chars(s) ==
    CASE s = "ai_novine:" -> <<"a", "i", "_", "n", "o", "v", "i", "n", "e", ":">>
      [] s = "sport" -> <<"s", "p", "o", "r", "t">>
      [] s = "svijet" -> <<"s", "v", "i", "j", "e", "t">>
      [] s = "novine" -> <<"n", "o", "v", "i", "n", "e">>
      [] s = "s" -> <<"s">>
      [] s = "*" -> <<"*">>
      [] s = "?" -> <<"?">>
      [] s = "" -> <<>>

\* the text of a stored key: f"{self.key_prefix}{key}"
KeyText(cache_key) == Chars(cache_key[1]) \o Chars(cache_key[2])

\* Python's `pattern in k`
Contains(pattern, text) ==
    \E i \in 0..(Len(text) - Len(pattern)) : SubSeq(text, i + 1, i + Len(pattern)) = pattern

\* the glob match of Redis KEYS: * stands for any run of characters, ? for
\* one character, any other character of these texts for itself
RECURSIVE GlobMatch(_, _)
GlobMatch(pattern, text) ==
    IF pattern = <<>> THEN text = <<>>
    ELSE IF Head(pattern) = "*"
    THEN GlobMatch(Tail(pattern), text) \/ (text # <<>> /\ GlobMatch(pattern, Tail(text)))
    ELSE /\ text # <<>>
         /\ Head(pattern) = "?" \/ Head(pattern) = Head(text)
         /\ GlobMatch(Tail(pattern), Tail(text))

\* self._make_key(f"*{pattern}*")
SearchPattern(pattern) == Chars(MakeKey(pattern)[1]) \o <<"*">> \o Chars(pattern) \o <<"*">>

\* keys(search_pattern) followed by delete(*keys) on a Redis store
RedisClearKeys(data, pattern) ==
    LET keys == {k \in DOMAIN data :
                    RedisLive(data, k) /\ GlobMatch(SearchPattern(pattern), KeyText(k))}
    IN  [data |-> [k \in DOMAIN data \ keys |-> data[k]], deleted |-> Cardinality(keys)]

\* [k for k in cache.keys() if pattern in k] followed by del cache[key]
MemoryClearKeys(cache, pattern) ==
    LET keys_to_delete == {k \in DOMAIN cache : Contains(Chars(pattern), KeyText(k))}
    IN  [data |-> [k \in DOMAIN cache \ keys_to_delete |-> cache[k]],
         deleted |-> Cardinality(keys_to_delete)]

\* FallbackRedisManager.clear_pattern (lines 207-228)
FallbackClearPattern(m, pattern, ok) ==
    IF UsesFakeRedis(m)
    THEN IF ok
         THEN [self |-> [m EXCEPT !.fake_redis.data = RedisClearKeys(@, pattern).data],
               ret |-> RedisClearKeys(m.fake_redis.data, pattern).deleted]
         ELSE [self |-> m, ret |-> 0]
    ELSE [self |-> [m EXCEPT !.memory_cache = MemoryClearKeys(@, pattern).data],
          ret |-> MemoryClearKeys(m.memory_cache, pattern).deleted]

\* RedisManager.clear_pattern (lines 219-242)
RedisManagerClearPattern(m, pattern, ok) ==
    IF ~m.is_connected
    THEN [self |-> [m EXCEPT !.fallback_cache = MemoryClearKeys(@, pattern).data],
          ret |-> MemoryClearKeys(m.fallback_cache, pattern).deleted]
    ELSE IF ok
    THEN [self |-> [m EXCEPT !.async_redis.data = RedisClearKeys(@, pattern).data],
          ret |-> RedisClearKeys(m.async_redis.data, pattern).deleted]
    ELSE [self |-> m, ret |-> 0]

\* the logical names under which a store holds an entry
StoredNames(data) == {k[2] : k \in DOMAIN data}

PrimaryStore == IF manager = "fallback" THEN fallback_redis_manager.fake_redis.data
                ELSE redis_manager.async_redis.data

MemoryStore == IF manager = "fallback" THEN twin.fallback.memory_cache
               ELSE twin.redis.fallback_cache

PatternKeys == {"sport", "svijet", "novine"}

Patterns == {"sport", "s", "novine", "*", "?", ""}

\* set(key, value) on both paths
pattern_set(key, value) ==
    /\ IF manager = "fallback"
       THEN /\ fallback_redis_manager.cache_sets < MaxSets
            /\ fallback_redis_manager' =
                  FallbackSet(fallback_redis_manager, key, value, 0, TRUE).self
            /\ twin' = [twin EXCEPT !.fallback = FallbackSet(@, key, value, 0, TRUE).self]
            /\ UNCHANGED redis_manager
       ELSE /\ redis_manager.cache_sets < MaxSets
            /\ redis_manager' = RedisManagerSet(redis_manager, key, value, 0, TRUE).self
            /\ twin' = [twin EXCEPT !.redis = RedisManagerSet(@, key, value, 0, TRUE).self]
            /\ UNCHANGED fallback_redis_manager
    /\ UNCHANGED <<now, schedulerVars, simple_cache, tasks, manager, last_set, reply>>

\* clear_pattern(pattern) on both paths; reply keeps what each path held
\* before the call, what it holds after it and what the call returned
clear_pattern(pattern) ==
    /\ UNCHANGED <<now, schedulerVars, simple_cache, tasks, manager, last_set>>
    /\ LET primary == IF manager = "fallback"
                      THEN FallbackClearPattern(fallback_redis_manager, pattern, TRUE)
                      ELSE RedisManagerClearPattern(redis_manager, pattern, TRUE)
           memory == IF manager = "fallback"
                     THEN FallbackClearPattern(twin.fallback, pattern, TRUE)
                     ELSE RedisManagerClearPattern(twin.redis, pattern, TRUE)
       IN  /\ IF manager = "fallback"
              THEN /\ fallback_redis_manager' = primary.self
                   /\ twin' = [twin EXCEPT !.fallback = memory.self]
                   /\ UNCHANGED redis_manager
              ELSE /\ redis_manager' = primary.self
                   /\ twin' = [twin EXCEPT !.redis = memory.self]
                   /\ UNCHANGED fallback_redis_manager
           /\ reply' = [kind |-> "clear_pattern", pattern |-> pattern,
                        primary |-> [before |-> StoredNames(PrimaryStore),
                                     after |-> StoredNames(PrimaryStore'),
                                     ret |-> primary.ret],
                        memory |-> [before |-> StoredNames(MemoryStore),
                                    after |-> StoredNames(MemoryStore'),
                                    ret |-> memory.ret]]

InitPattern ==
    /\ now = 0
    /\ is_running = FALSE
    /\ refresh_stats = InitialRefreshStats
    /\ jobs = EmptyDict
    /\ runs = [i \in RunIds |-> IdleRun]
    /\ manager \in {"fallback", "redis"}
    /\ simple_cache = NewSimpleRedisManager
    /\ fallback_redis_manager = FallbackConnect(NewFallbackRedisManager(TRUE), TRUE)
    /\ redis_manager = RedisManagerConnect(NewRedisManager, TRUE)
    /\ twin = [simple |-> NewSimpleRedisManager,
               fallback |-> FallbackConnect(NewFallbackRedisManager(FALSE), TRUE),
               redis |-> RedisManagerConnect(NewRedisManager, FALSE)]
    /\ reply = NoReply
    /\ tasks = <<>>
    /\ last_set = EmptyDict

NextPattern ==
    \/ \E key \in PatternKeys, value \in CacheValues : pattern_set(key, value)
    \/ \E pattern \in Patterns : clear_pattern(pattern)

SpecPattern == InitPattern /\ [][NextPattern]_vars

-----------------------------------------------------------------------------
(* SpecRoute: the news routes read the cache and fetch on a miss while the *)
(* scheduler refreshes and the clock runs in hours.  Each handler and each *)
(* scheduler run is one step: its awaited cache calls return before any    *)
(* other coroutine runs.  last_set remembers, per category, the last       *)
(* successful write of a scheduler run that no route has cleared.          *)

\* news.py 174-177, 396-399: the TTL a route writes with
RouteTtl(category) == IF category = "Europska_unija" THEN 21600 ELSE 7200

\* `if cached_articles:` is false for None and for the empty list
Truthy(got) == got.hit /\ got.value # <<>>

\* news.py 93-94: article['user_category'] = category, for each article
TagAll(articles, category) ==
    [n \in DOMAIN articles |->
        [naslov |-> articles[n].naslov, user_category |-> category]]

\* get_news line 110 returns cached_item['data'], the list object kept in
\* memory_cache, and set_news lines 73-76 keep the list object they are
\* given; on FakeRedis json.dumps / json.loads (66, 98) build new objects
SharesStoredList(cache) == ~cache.fake_redis.present

\* the caller changed, in place, the list stored for category
MutateStored(cache, category, articles) ==
    IF NewsKey(category) \in DOMAIN cache.memory_cache
    THEN [cache EXCEPT !.memory_cache[NewsKey(category)].data = articles]
    ELSE cache

\* news.py 166-180, 84-89, 390-401: fetch and cache with the route's TTL
FetchOnMiss(cache, category, outcome, ok) ==
    LET fetched == generiraj_vijesti(outcome)
        articles == parse_news_content(fetched, 2)
        call == SetNews(cache, category, articles, RouteTtl(category), ok, ok)
    IN  IF ResultUsable(fetched)
        THEN [self |-> call.self, articles |-> articles, fetched |-> TRUE,
              cached |-> call.ret]
        ELSE [self |-> cache, articles |-> <<>>, fetched |-> FALSE, cached |-> FALSE]

RouteCategories == {"Hrvatska"}

\* a call on FakeRedis may raise; a lookup or a store in the memory dict
\* does not
CallOutcomes == IF simple_cache.fake_redis.present THEN BOOLEAN ELSE {TRUE}

\* a registered job or a manual refresh runs fetch_category_news to its end
run_fetch_category_news(category, outcome, ok) ==
    /\ ok \in CallOutcomes
    /\ refresh_stats.total_refreshes < MaxBatch
    /\ LET call == FetchAndCache(ManualState, category, outcome, ok)
       IN  /\ refresh_stats' = call.refresh_stats
           /\ simple_cache' = call.simple_cache
           /\ last_set' =
                 IF call.ret
                 THEN DictSet(last_set, NewsKey(category),
                              [name |-> category,
                               value |-> parse_news_content(generiraj_vijesti(outcome), 1),
                               at |-> now, ttl |-> get_cache_ttl(category)])
                 ELSE last_set
    /\ UNCHANGED <<now, is_running, jobs, runs, fallback_redis_manager, redis_manager,
                   tasks, manager, twin, reply>>

\* news.py 141-201: GET /news/{category}
show_news(category, outcome, ok) ==
    /\ ok \in CallOutcomes
    /\ simple_cache.cache_hits + simple_cache.cache_misses < MaxGets
    /\ LET cached_articles == GetNewsResult(simple_cache, category, ok)
           after_get == GetNews(simple_cache, category, ok)
           cache_timestamp == GetTimestamp(after_get, category, ok)
           miss == FetchOnMiss(after_get, category, outcome, ok)
       IN  IF Truthy(cached_articles)
           THEN /\ simple_cache' = after_get
                /\ reply' = [kind |-> "show_news", category |-> category,
                             cache_status |-> "redis_cache",
                             articles |-> cached_articles.value,
                             last_updated |-> cache_timestamp]
           ELSE /\ simple_cache' = miss.self
                /\ reply' = [kind |-> "show_news", category |-> category,
                             cache_status |-> IF miss.fetched THEN "fresh_fetch"
                                              ELSE "fetch_error",
                             articles |-> miss.articles,
                             last_updated |-> IF miss.fetched THEN Present(now)
                                              ELSE Absent]
    /\ UNCHANGED <<now, is_running, refresh_stats, jobs, runs, fallback_redis_manager,
                   redis_manager, tasks, manager, last_set, twin>>

\* news.py 48-130: GET /my-news for a user whose selected_categories is
\* [category]
my_personalized_news(category, outcome, ok) ==
    /\ ok \in CallOutcomes
    /\ simple_cache.cache_hits + simple_cache.cache_misses < MaxGets
    /\ LET cached_articles == GetNewsResult(simple_cache, category, ok)
           after_get == GetNews(simple_cache, category, ok)
           miss == FetchOnMiss(after_get, category, outcome, ok)
           articles == IF Truthy(cached_articles) THEN cached_articles.value
                       ELSE miss.articles
           after == IF Truthy(cached_articles) THEN after_get ELSE miss.self
           tagged == TagAll(articles, category)
       IN  /\ simple_cache' =
                 IF SharesStoredList(after) /\ articles # <<>>
                 THEN MutateStored(after, category, tagged)
                 ELSE after
           /\ reply' = [kind |-> "my_personalized_news", category |-> category,
                        articles |-> tagged]
    /\ UNCHANGED <<now, is_running, refresh_stats, jobs, runs, fallback_redis_manager,
                   redis_manager, tasks, manager, last_set, twin>>

\* news.py 274-299: POST /api/refresh/{category}; the fetch is left to a
\* background task that runs after the response
refresh_news(category, ok) ==
    /\ ok \in CallOutcomes
    /\ Len(tasks) < MaxTasks
    /\ LET call == ClearCategory(simple_cache, category, ok)
       IN  /\ simple_cache' = call.self
           /\ last_set' = IF call.ret THEN DictPop(last_set, NewsKey(category))
                          ELSE last_set
           /\ reply' = [kind |-> "refresh_news", category |-> category,
                        cache_cleared |-> call.ret]
    /\ tasks' = Append(tasks, [pc |-> "trigger_fresh_fetch_and_cache",
                               category |-> category])
    /\ UNCHANGED <<now, is_running, refresh_stats, jobs, runs, fallback_redis_manager,
                   redis_manager, manager, twin>>

\* news.py 386-411: the background task
trigger_fresh_fetch_and_cache(outcome, ok) ==
    /\ ok \in CallOutcomes
    /\ tasks # <<>>
    /\ Head(tasks).pc = "trigger_fresh_fetch_and_cache"
    /\ simple_cache' = FetchOnMiss(simple_cache, Head(tasks).category, outcome, ok).self
    /\ tasks' = Tail(tasks)
    /\ UNCHANGED <<now, is_running, refresh_stats, jobs, runs, fallback_redis_manager,
                   redis_manager, manager, last_set, twin, reply>>

NextRoute ==
    \/ LifeTick
    \/ \E category \in RouteCategories, outcome \in FetcherOutcomes, ok \in BOOLEAN :
          run_fetch_category_news(category, outcome, ok)
    \/ \E category \in RouteCategories, outcome \in FetcherOutcomes, ok \in BOOLEAN :
          show_news(category, outcome, ok)
    \/ \E category \in RouteCategories, outcome \in FetcherOutcomes, ok \in BOOLEAN :
          my_personalized_news(category, outcome, ok)
    \/ \E category \in RouteCategories, ok \in BOOLEAN : refresh_news(category, ok)
    \/ \E outcome \in FetcherOutcomes, ok \in BOOLEAN :
          trigger_fresh_fetch_and_cache(outcome, ok)

SpecRoute == Init /\ [][NextRoute]_vars

-----------------------------------------------------------------------------
(* SpecTwin: a manager on its FakeRedis path and the same manager on its   *)
(* in-memory path receive the same calls at the same times; no backend     *)
(* call fails.                                                             *)

\* SimpleRedisManager.set_news on both paths
twin_set_news(category, articles, ttl_seconds) ==
    /\ manager = "simple"
    /\ simple_cache' = SetNews(simple_cache, category, articles, ttl_seconds,
                               TRUE, TRUE).self
    /\ twin' = [twin EXCEPT !.simple = SetNews(@, category, articles, ttl_seconds,
                                               TRUE, TRUE).self]
    /\ UNCHANGED <<now, schedulerVars, fallback_redis_manager, redis_manager, tasks,
                   manager, last_set, reply>>

\* SimpleRedisManager.get_news on both paths
twin_get_news(category) ==
    /\ manager = "simple"
    /\ simple_cache.cache_hits + simple_cache.cache_misses < MaxGets
    /\ simple_cache' = GetNews(simple_cache, category, TRUE)
    /\ twin' = [twin EXCEPT !.simple = GetNews(@, category, TRUE)]
    /\ UNCHANGED <<now, schedulerVars, fallback_redis_manager, redis_manager, tasks,
                   manager, last_set, reply>>

\* FallbackRedisManager.set on both paths
twin_fallback_set(key, value, ttl) ==
    /\ manager = "fallback"
    /\ fallback_redis_manager.cache_sets < MaxSets
    /\ fallback_redis_manager' = FallbackSet(fallback_redis_manager, key, value, ttl,
                                             TRUE).self
    /\ twin' = [twin EXCEPT !.fallback = FallbackSet(@, key, value, ttl, TRUE).self]
    /\ UNCHANGED <<now, schedulerVars, simple_cache, redis_manager, tasks, manager,
                   last_set, reply>>

\* FallbackRedisManager.get on both paths
twin_fallback_get(key) ==
    /\ manager = "fallback"
    /\ fallback_redis_manager.cache_hits + fallback_redis_manager.cache_misses < MaxGets
    /\ fallback_redis_manager' = FallbackGet(fallback_redis_manager, key, TRUE)
    /\ twin' = [twin EXCEPT !.fallback = FallbackGet(@, key, TRUE)]
    /\ UNCHANGED <<now, schedulerVars, simple_cache, redis_manager, tasks, manager,
                   last_set, reply>>

InitTwin ==
    /\ now = 0
    /\ is_running = FALSE
    /\ refresh_stats = InitialRefreshStats
    /\ jobs = EmptyDict
    /\ runs = [i \in RunIds |-> IdleRun]
    /\ manager \in {"simple", "fallback"}
    /\ simple_cache = SimpleConnect(NewSimpleRedisManager, TRUE)
    /\ fallback_redis_manager = FallbackConnect(NewFallbackRedisManager(TRUE), TRUE)
    /\ twin = [simple |-> SimpleConnect(NewSimpleRedisManager, FALSE),
               fallback |-> FallbackConnect(NewFallbackRedisManager(FALSE), TRUE)]
    /\ reply = NoReply
    /\ redis_manager = NewRedisManager
    /\ tasks = <<>>
    /\ last_set = EmptyDict

NextTwin ==
    \/ ClockTick
    \/ \E category \in CacheNames, articles \in CacheValues, ttl_seconds \in CacheTtls :
          twin_set_news(category, articles, ttl_seconds)
    \/ \E category \in CacheNames : twin_get_news(category)
    \/ \E key \in CacheNames, value \in CacheValues, ttl \in CacheTtls :
          twin_fallback_set(key, value, ttl)
    \/ \E key \in CacheNames : twin_fallback_get(key)

SpecTwin == InitTwin /\ [][NextTwin]_vars

-----------------------------------------------------------------------------
(* SpecStats: SimpleRedisManager or FallbackRedisManager, connected to a   *)
(* backend that is up, serves up to MaxLookups gets.                       *)

MaxLookups == 3

\* SimpleRedisManager.set_news or FallbackRedisManager.set
stats_set(name, value, ttl) ==
    /\ manager = "fallback" => fallback_redis_manager.cache_sets < MaxSets
    /\ simple_cache' = IF manager = "simple"
                       THEN SetNews(simple_cache, name, value, ttl, TRUE, TRUE).self
                       ELSE simple_cache
    /\ fallback_redis_manager' =
          IF manager = "fallback"
          THEN FallbackSet(fallback_redis_manager, name, value, ttl, TRUE).self
          ELSE fallback_redis_manager
    /\ UNCHANGED <<now, schedulerVars, redis_manager, tasks, manager, last_set, twin, reply>>

\* SimpleRedisManager.get_news or FallbackRedisManager.get
stats_get(name, ok) ==
    /\ LET c == IF manager = "simple" THEN simple_cache ELSE fallback_redis_manager
       IN  c.cache_hits + c.cache_misses < MaxLookups
    /\ simple_cache' = IF manager = "simple"
                       THEN GetNews(simple_cache, name, ok)
                       ELSE simple_cache
    /\ fallback_redis_manager' =
          IF manager = "fallback"
          THEN FallbackGet(fallback_redis_manager, name, ok)
          ELSE fallback_redis_manager
    /\ UNCHANGED <<now, schedulerVars, redis_manager, tasks, manager, last_set, twin, reply>>

InitStats ==
    /\ now = 0
    /\ is_running = FALSE
    /\ refresh_stats = InitialRefreshStats
    /\ jobs = EmptyDict
    /\ runs = [i \in RunIds |-> IdleRun]
    /\ manager \in {"simple", "fallback"}
    /\ \E available \in BOOLEAN :
          /\ simple_cache = SimpleConnect(NewSimpleRedisManager, available)
          /\ fallback_redis_manager =
                FallbackConnect(NewFallbackRedisManager(available), TRUE)
    /\ redis_manager = NewRedisManager
    /\ tasks = <<>>
    /\ last_set = EmptyDict
    /\ twin = NoTwin
    /\ reply = NoReply

NextStats ==
    \/ ClockTick
    \/ \E name \in CacheKeys, value \in CacheValues, ttl \in CacheTtls :
          stats_set(name, value, ttl)
    \/ \E name \in CacheKeys, ok \in BOOLEAN : stats_get(name, ok)

SpecStats == InitStats /\ [][NextStats]_vars

-----------------------------------------------------------------------------
(* Properties of the cache managers                                        *)

\* C12: on the FakeRedis path and on the in-memory path, after the same calls
\* at the same times, every get returns the same result and the hit and miss
\* counters, hence the hit rate, are the same.
C12_DualPathEquivalence ==
    /\ manager = "simple" =>
          /\ \A n \in CacheNames :
                GetNewsResult(simple_cache, n, TRUE) = GetNewsResult(twin.simple, n, TRUE)
          /\ simple_cache.cache_hits = twin.simple.cache_hits
          /\ simple_cache.cache_misses = twin.simple.cache_misses
          /\ HitRate(simple_cache.cache_hits, simple_cache.cache_misses)
                = HitRate(twin.simple.cache_hits, twin.simple.cache_misses)
    /\ manager = "fallback" =>
          /\ \A n \in CacheNames :
                FallbackGetResult(fallback_redis_manager, n, TRUE)
                    = FallbackGetResult(twin.fallback, n, TRUE)
          /\ fallback_redis_manager.cache_hits = twin.fallback.cache_hits
          /\ fallback_redis_manager.cache_misses = twin.fallback.cache_misses
          /\ HitRate(fallback_redis_manager.cache_hits, fallback_redis_manager.cache_misses)
                = HitRate(twin.fallback.cache_hits, twin.fallback.cache_misses)


\* what get(name) would return now, from the manager under test
Lookup(name) ==
    IF manager = "simple" THEN GetNewsResult(simple_cache, name, TRUE)
    ELSE IF manager = "fallback" THEN FallbackGetResult(fallback_redis_manager, name, TRUE)
    ELSE RedisManagerGetResult(redis_manager, name, TRUE)

\* C10: after set(k, v, ttl) with ttl > 0 returned True and no later set or
\* delete of k, get(k) returns v while fewer than ttl seconds have passed
\* since the set, and reports the key absent once ttl seconds have passed.
C10_GetAfterSet ==
    \A k \in DOMAIN last_set :
        last_set[k].ttl > 0 =>
            Lookup(last_set[k].name) =
                IF now - last_set[k].at < last_set[k].ttl
                THEN Present(last_set[k].value)
                ELSE Absent

\* the manager under test went through connect() and its primary backend did
\* not answer then
ConnectFailed ==
    \/ /\ manager = "simple"
       /\ simple_cache.is_connected
       /\ simple_cache.fake_redis.present
       /\ ~simple_cache.fake_redis.reachable
    \/ /\ manager = "fallback"
       /\ fallback_redis_manager.is_connected
       /\ fallback_redis_manager.fake_redis.present
       /\ ~fallback_redis_manager.fake_redis.reachable

\* the backend kind the manager under test reports is the in-memory one
ReportsMemory ==
    IF manager = "simple" THEN SimpleCacheType(simple_cache) = "Memory"
    ELSE FallbackCacheType(fallback_redis_manager) = "memory"

\* a set of value under name with ttl, made now, returns True and a get that
\* follows it returns value
SetThenGetWorks(name, value, ttl) ==
    IF manager = "simple"
    THEN LET call == SetNews(simple_cache, name, value, ttl, TRUE, TRUE)
         IN  call.ret /\ GetNewsResult(call.self, name, TRUE) = Present(value)
    ELSE LET call == FallbackSet(fallback_redis_manager, name, value, ttl, TRUE)
         IN  call.ret /\ FallbackGetResult(call.self, name, TRUE) = Present(value)

\* C11: when the primary backend did not answer at connect(), the manager
\* reports the in-memory backend and serves set and get from it: a set with a
\* positive TTL returns True and the get that follows returns the value.
C11_FallbackAfterFailedConnect ==
    ConnectFailed =>
        /\ ReportsMemory
        /\ \A name \in CacheNames, value \in CacheValues, ttl \in CacheTtls \ {0} :
               SetThenGetWorks(name, value, ttl)

\* a set of value under name with ttl 0, made now, is followed by a get that
\* returns nothing and counts one miss and no hit
SetZeroThenGetAbsent(name, value) ==
    IF manager = "simple"
    THEN LET stored == SetNews(simple_cache, name, value, 0, TRUE, TRUE).self
             after == GetNews(stored, name, TRUE)
         IN  /\ GetNewsResult(stored, name, TRUE) = Absent
             /\ after.cache_misses = stored.cache_misses + 1
             /\ after.cache_hits = stored.cache_hits
    ELSE IF manager = "fallback"
    THEN LET stored == FallbackSet(fallback_redis_manager, name, value, 0, TRUE).self
             after == FallbackGet(stored, name, TRUE)
         IN  /\ FallbackGetResult(stored, name, TRUE) = Absent
             /\ after.cache_misses = stored.cache_misses + 1
             /\ after.cache_hits = stored.cache_hits
    ELSE LET stored == RedisManagerSet(redis_manager, name, value, 0, TRUE).self
             after == RedisManagerGet(stored, name, TRUE)
         IN  /\ RedisManagerGetResult(stored, name, TRUE) = Absent
             /\ after.cache_misses = stored.cache_misses + 1
             /\ after.cache_hits = stored.cache_hits

\* C13: on every manager and on both backend paths, a set with TTL 0 stores
\* an entry that is already expired: the get that follows it returns nothing
\* and counts a miss.
C13_TtlZeroIsExpired ==
    \A name \in CacheNames, value \in CacheValues : SetZeroThenGetAbsent(name, value)

\* the entries the manager under test holds, in the store it uses
StoreKeys(simple, fallback, redis) ==
    IF manager = "simple"
    THEN IF simple.fake_redis.present
         THEN DOMAIN simple.fake_redis.data ELSE DOMAIN simple.memory_cache
    ELSE IF manager = "fallback"
    THEN IF UsesFakeRedis(fallback)
         THEN DOMAIN fallback.fake_redis.data ELSE DOMAIN fallback.memory_cache
    ELSE IF redis.is_connected
         THEN DOMAIN redis.async_redis.data ELSE DOMAIN redis.fallback_cache

\* the store of the manager under test holds an entry for name whose time to
\* live has run out
HoldsExpired(name) ==
    IF manager = "simple"
    THEN LET k == NewsKey(name)
         IN  IF simple_cache.fake_redis.present
             THEN k \in DOMAIN simple_cache.fake_redis.data
                  /\ ~RedisLive(simple_cache.fake_redis.data, k)
             ELSE k \in DOMAIN simple_cache.memory_cache
                  /\ simple_cache.memory_cache[k].expires_at <= now
    ELSE IF manager = "fallback"
    THEN LET k == MakeKey(name)
             m == fallback_redis_manager
         IN  IF UsesFakeRedis(m)
             THEN k \in DOMAIN m.fake_redis.data /\ ~RedisLive(m.fake_redis.data, k)
             ELSE k \in DOMAIN m.memory_cache /\ m.memory_cache[k].expires_at <= now
    ELSE LET k == MakeKey(name)
             m == redis_manager
         IN  IF m.is_connected
             THEN k \in DOMAIN m.async_redis.data /\ ~RedisLive(m.async_redis.data, k)
             ELSE k \in DOMAIN m.fallback_cache /\ m.fallback_cache[k].expires_at <= now

\* the key get(name) looks up in the manager under test
StoreKey(name) == IF manager = "simple" THEN NewsKey(name) ELSE MakeKey(name)

\* the entries left in the store once get(name) has returned
StoreKeysAfterGet(name) ==
    StoreKeys(GetNews(simple_cache, name, TRUE),
              FallbackGet(fallback_redis_manager, name, TRUE),
              RedisManagerGet(redis_manager, name, TRUE))

\* C14: a get of a key whose entry has expired returns nothing and removes
\* the entry from the store.
C14_GetRemovesExpired ==
    \A name \in CacheNames :
        HoldsExpired(name) =>
            /\ Lookup(name) = Absent
            /\ StoreKey(name) \notin StoreKeysAfterGet(name)

\* C14, second half: the passage of time alone removes no entry (no sweep)
NoSweep ==
    [][now' # now =>
          StoreKeys(simple_cache', fallback_redis_manager', redis_manager')
              = StoreKeys(simple_cache, fallback_redis_manager, redis_manager)]_vars

\* cache_hits and cache_misses of the manager under test
Counters(simple, fallback, redis) ==
    IF manager = "simple"
    THEN <<simple.cache_hits, simple.cache_misses>>
    ELSE IF manager = "fallback"
    THEN <<fallback.cache_hits, fallback.cache_misses>>
    ELSE <<redis.cache_hits, redis.cache_misses>>

\* this step adds one to cache_hits when hit, one to cache_misses otherwise,
\* and leaves the other counter alone
CountedAs(hit) ==
    LET before == Counters(simple_cache, fallback_redis_manager, redis_manager)
        after == Counters(simple_cache', fallback_redis_manager', redis_manager')
    IN  after = IF hit THEN <<before[1] + 1, before[2]>>
                       ELSE <<before[1], before[2] + 1>>

\* this step is a get of some manager
IsGet ==
    \/ \E category \in CacheNames, ok \in BOOLEAN : get_news(category, ok)
    \/ \E key \in CacheKeys, ok \in BOOLEAN : fallback_get(key, ok)
    \/ \E key \in CacheKeys, ok \in BOOLEAN : redis_get(key, ok)

\* C15: every get adds one to exactly one of cache_hits and cache_misses: to
\* cache_hits when it returns a value, to cache_misses when it returns
\* nothing, a backend that raises included; every other operation leaves
\* both counters as they are, so that their sum is the number of gets made.
C15_GetCountsExactlyOnce ==
    [][/\ \A category \in CacheNames, ok \in BOOLEAN :
             get_news(category, ok) =>
                 CountedAs(GetNewsResult(simple_cache, category, ok).hit)
       /\ \A key \in CacheKeys, ok \in BOOLEAN :
             fallback_get(key, ok) =>
                 CountedAs(FallbackGetResult(fallback_redis_manager, key, ok).hit)
       /\ \A key \in CacheKeys, ok \in BOOLEAN :
             redis_get(key, ok) =>
                 CountedAs(RedisManagerGetResult(redis_manager, key, ok).hit)
       /\ ~IsGet =>
             Counters(simple_cache', fallback_redis_manager', redis_manager')
                 = Counters(simple_cache, fallback_redis_manager, redis_manager)]_vars

\* a manager has answered one get with a value and one with nothing
C15_Witness ==
    Counters(simple_cache, fallback_redis_manager, redis_manager) = <<1, 1>>

\* the hit rate that stats of the manager under test reports
ReportedHitRate ==
    IF manager = "simple"
    THEN SimpleGetStats(simple_cache).hit_rate
    ELSE FallbackGetStats(fallback_redis_manager, TRUE).hit_rate

\* C16: the hit rate in the statistics is 0 while hits + misses = 0 and
\* hits / (hits + misses) * 100 afterwards, from the counters as they are at
\* the call, and lies between 0 and 100.
C16_HitRateFormula ==
    LET c == Counters(simple_cache, fallback_redis_manager, redis_manager)
    IN  /\ SameRate(ReportedHitRate, HitRate(c[1], c[2]))
        /\ 0 <= ReportedHitRate[1]
        /\ ReportedHitRate[1] <= 100 * ReportedHitRate[2]

-----------------------------------------------------------------------------
(* Properties of the refresh scheduler                                     *)

RECURSIVE SumOver(_, _)
SumOver(f, S) ==
    IF S = {} THEN 0
    ELSE LET x == CHOOSE y \in S : TRUE IN f[x] + SumOver(f, S \ {x})

CategorySuccess == [c \in Categories |-> refresh_stats.category_stats[c].success]

CategoryFailed == [c \in Categories |-> refresh_stats.category_stats[c].failed]

\* run i ends in this step
Ends(i) == runs[i].pc # "done" /\ runs'[i].pc = "done"

\* run i starts in this step
Starts(i) == runs[i].pc = "idle" /\ runs'[i].pc # "idle"

\* this step counts one failure for category c and no success
CountsOneFailure(c) ==
    /\ refresh_stats'.failed_refreshes = refresh_stats.failed_refreshes + 1
    /\ refresh_stats'.category_stats[c].failed = refresh_stats.category_stats[c].failed + 1
    /\ \A d \in Categories \ {c} :
          refresh_stats'.category_stats[d] = refresh_stats.category_stats[d]
    /\ refresh_stats'.successful_refreshes = refresh_stats.successful_refreshes
    /\ refresh_stats'.category_stats[c].success = refresh_stats.category_stats[c].success

\* this step counts one success for category c and no failure
CountsOneSuccess(c) ==
    /\ refresh_stats'.successful_refreshes = refresh_stats.successful_refreshes + 1
    /\ refresh_stats'.category_stats[c].success = refresh_stats.category_stats[c].success + 1
    /\ \A d \in Categories \ {c} :
          refresh_stats'.category_stats[d] = refresh_stats.category_stats[d]
    /\ refresh_stats'.failed_refreshes = refresh_stats.failed_refreshes
    /\ refresh_stats'.category_stats[c].failed = refresh_stats.category_stats[c].failed

\* C1: in every reachable state total_refreshes equals successful_refreshes
\* plus failed_refreshes.
C1_TotalIsSuccessPlusFailed ==
    refresh_stats.total_refreshes =
        refresh_stats.successful_refreshes + refresh_stats.failed_refreshes

\* C2: in every reachable state the per-category success counters add up to
\* successful_refreshes and the per-category failed counters to failed_refreshes.
C2_CategorySums ==
    /\ SumOver(CategorySuccess, Categories) = refresh_stats.successful_refreshes
    /\ SumOver(CategoryFailed, Categories) = refresh_stats.failed_refreshes

\* a success and a failure have been counted, in different categories
C2_Witness ==
    \E c, d \in Categories :
        /\ c # d
        /\ refresh_stats.category_stats[c].success > 0
        /\ refresh_stats.category_stats[d].failed > 0

\* C3: no two runs for the same category are inside the cache write (set_news)
\* at the same time.
C3_SingleFlight ==
    \A i, j \in RunIds :
        (i # j /\ InFlight(runs[i]) /\ InFlight(runs[j]))
            => runs[i].category # runs[j].category

\* C4: a manual refresh that arrives while a run for the same category is in
\* flight is skipped: it ends with the outcome "skipped" and changes no counter.
C4_ManualSkippedWhileInFlight ==
    [][\A i \in RunIds :
          (/\ Starts(i)
           /\ runs'[i].manual
           /\ \E j \in RunIds \ {i} :
                 InFlight(runs[j]) /\ runs[j].category = runs'[i].category)
          => (runs'[i].result = "skipped" /\ refresh_stats' = refresh_stats)]_vars

\* C5: a run whose fetch fails (the fetcher gives an empty result, gives the
\* unavailable sentinel, or throws an exception, which generiraj_vijesti hands
\* on as its error text) returns false in the same step, leaves the cache as
\* it was, and counts exactly one failure for its category and no success.
C5_FetchFailure ==
    [][\A i \in RunIds :
          (Starts(i) /\ runs'[i].fetched \in {"empty", "unavailable", "error_text"})
          => (/\ runs'[i].pc = "done"
              /\ runs'[i].result = "false"
              /\ simple_cache' = simple_cache
              /\ CountsOneFailure(runs'[i].category))]_vars

\* the cache holds an article entry for category c
HasNewsEntry(cache, c) ==
    IF cache.fake_redis.present
    THEN NewsKey(c) \in DOMAIN cache.fake_redis.data
    ELSE NewsKey(c) \in DOMAIN cache.memory_cache

\* C6: a run returns true exactly when set_news reported success (and then the
\* cache holds an entry for the category); when set_news reports failure
\* the run returns false and counts one failure and no success.
C6_TrueIffCacheWrite ==
    [][\A i \in RunIds :
          Ends(i)
          => (/\ (runs'[i].result = "true") <=> (runs'[i].cache_success = "true")
              /\ (runs'[i].result = "true") => HasNewsEntry(simple_cache', runs'[i].category)
              /\ (runs'[i].cache_success = "false")
                    => (/\ runs'[i].result = "false"
                        /\ CountsOneFailure(runs'[i].category)))]_vars

\* one run returned true and another returned false after set_news failed
C6_Witness ==
    \E i, j \in RunIds :
        /\ runs[i].pc = "done" /\ runs[i].result = "true"
        /\ runs[j].pc = "done" /\ runs[j].cache_success = "false"
        /\ runs[j].fetched = "articles"

\* C7: every run that ends, however it ends, adds 1 to total_refreshes and in
\* the same step counts exactly one success or one failure for its category.
C7_OneUnitPerRun ==
    [][\A i \in RunIds :
          Ends(i)
          => (/\ refresh_stats'.total_refreshes = refresh_stats.total_refreshes + 1
              /\ \/ CountsOneSuccess(runs'[i].category)
                 \/ CountsOneFailure(runs'[i].category))]_vars

\* C8: once a category has been refreshed, a read of it at any moment at
\* which none of its refreshes is due or running is a hit.
C8_HitBetweenRefreshes ==
    \A c \in Categories :
        (refresh_stats.category_stats[c].success > 0 /\ ~RefreshPending(c))
            => GetNewsResult(simple_cache, c, TRUE).hit

\* the TTL of the tiers as the specification gives them
TierTTL(c) ==
    CASE category_priorities[c].priority = "high" -> 4 * 3600
      [] category_priorities[c].priority = "medium" -> 6 * 3600
      [] category_priorities[c].priority = "low" -> 24 * 3600

\* C9: every article entry a run writes for a category expires one tier TTL
\* after the write: 14400 s for high, 21600 s for medium, 86400 s for low.
C9_TierTTLOnWrite ==
    [][\A c \in Categories :
          /\ (/\ NewsKey(c) \in DOMAIN simple_cache'.memory_cache
              /\ \/ NewsKey(c) \notin DOMAIN simple_cache.memory_cache
                 \/ simple_cache'.memory_cache[NewsKey(c)] # simple_cache.memory_cache[NewsKey(c)])
             => simple_cache'.memory_cache[NewsKey(c)].expires_at = now + TierTTL(c)
          /\ (/\ NewsKey(c) \in DOMAIN simple_cache'.fake_redis.data
              /\ \/ NewsKey(c) \notin DOMAIN simple_cache.fake_redis.data
                 \/ simple_cache'.fake_redis.data[NewsKey(c)] # simple_cache.fake_redis.data[NewsKey(c)])
             => simple_cache'.fake_redis.data[NewsKey(c)].expire_at = now + TierTTL(c)]_vars

\* a manual run of a low-tier category and a scheduled run of a medium-tier
\* category have both returned true and their entries are in the cache
C9_Witness ==
    \E i, j \in RunIds :
        /\ runs[i].pc = "done" /\ runs[i].result = "true" /\ runs[i].manual
        /\ runs[i].category = "Regija"
        /\ runs[j].pc = "done" /\ runs[j].result = "true" /\ ~runs[j].manual
        /\ runs[j].category = "Sport"
        /\ HasNewsEntry(simple_cache, "Regija") /\ HasNewsEntry(simple_cache, "Sport")

\* C17: start_scheduler on a running scheduler and stop_scheduler on a stopped
\* one leave is_running, the registered jobs and refresh_stats as they are,
\* and two calls of start_scheduler in a row leave what one call leaves.
C17_LifecycleIdempotent ==
    /\ is_running => StartScheduler(Lifecycle) = Lifecycle
    /\ ~is_running => StopScheduler(Lifecycle) = Lifecycle
    /\ StartScheduler(StartScheduler(Lifecycle)) = StartScheduler(Lifecycle)

\* the scheduler runs and a job that has fired now waits for the next day,
\* where adding the jobs again would make it due at once
C17_Witness ==
    /\ is_running
    /\ \E j \in DOMAIN jobs : jobs[j] > NextFireTime(j[2], now)

\* the time slots registered for category c
RegisteredSlots(js, c) == {j[2] : j \in {k \in DOMAIN js : k[1] = c}}

\* C18: whenever the scheduler runs, after the first start_scheduler or after
\* any number of stop_scheduler / start_scheduler pairs, the registered jobs
\* are the same: one per category and time slot of category_priorities; a
\* stop followed by a start registers again the set that was registered.
C18_RestartRestoresJobs ==
    is_running =>
        /\ DOMAIN jobs = AllJobs
        /\ DOMAIN StartScheduler(StopScheduler(Lifecycle)).jobs = DOMAIN jobs
        /\ \A c \in Categories :
              RegisteredSlots(jobs, c) =
                  {category_priorities[c].times[k] :
                      k \in 1..Len(category_priorities[c].times)}

\* the scheduler runs again after a stop: the 02:00 job of Hrvatska has run,
\* the 02:00 job of Svijet was due at the same time and never ran, and that
\* time is past
C18_Witness ==
    /\ is_running
    /\ now > SlotSeconds(<<2, 0>>)
    /\ refresh_stats.category_stats["Hrvatska"].success > 0
    /\ \A i \in RunIds : runs[i].pc # "idle" => ~runs[i].manual
    /\ refresh_stats.category_stats["Svijet"] = [success |-> 0, failed |-> 0]
    /\ \A i \in RunIds : runs[i].category # "Svijet"

\* a run begins in frame i in this step
Begins(i) == ~InFlight(runs[i]) /\ runs'[i] # runs[i]

\* C19: while the scheduler is stopped no scheduled job starts a run, whatever
\* time passes, and refresh_stats changes only in a step where a manual
\* refresh begins or a run that was in flight ends.
C19_NoFireWhileStopped ==
    [][(~is_running /\ ~is_running') =>
          /\ \A i \in RunIds : Begins(i) => runs'[i].manual
          /\ refresh_stats' # refresh_stats =>
                \E i \in RunIds :
                    \/ Begins(i) /\ runs'[i].manual
                    \/ InFlight(runs[i]) /\ Ends(i)]_vars

\* the scheduler was stopped at 02:00 after the job of Hrvatska had run and
\* before the job of Svijet, due at the same time, ran; an hour has passed
\* and the job of Svijet has not run
C19_Witness ==
    /\ ~is_running
    /\ now > SlotSeconds(<<2, 0>>)
    /\ refresh_stats.category_stats["Hrvatska"].success > 0
    /\ \A i \in RunIds : runs[i].pc # "idle" => ~runs[i].manual
    /\ refresh_stats.category_stats["Svijet"] = [success |-> 0, failed |-> 0]
    /\ \A i \in RunIds : runs[i].category # "Svijet"

\* C20: a run that was in flight when stop_scheduler was called still ends
\* the way every run ends: with its success outcome (cache written, a success
\* counted) or with its failure outcome (a failure counted).
C20_StopLetsRunsFinish ==
    \A i \in RunIds :
        runs[i].pc = "done" =>
            \/ runs[i].result = "true" /\ runs[i].cache_success = "true"
            \/ runs[i].result = "false"

\* the fields of get_schedule_status that are read from the scheduler's jobs
TimerFields == {"total_jobs", "next_runs_by_category", "all_jobs"}

\* C21: while the scheduler is stopped get_schedule_status reports
\* is_running false and has none of total_jobs, next_runs_by_category and
\* all_jobs; while it runs it reports is_running true and has all three.
C21_StatusFollowsLifecycle ==
    /\ get_schedule_status.is_running = is_running
    /\ ~is_running => DOMAIN get_schedule_status \cap TimerFields = {}
    /\ is_running => TimerFields \subseteq DOMAIN get_schedule_status

\* the scheduler is stopped after one of its jobs has run
C21_Witness ==
    /\ ~is_running
    /\ \E i \in RunIds : runs[i].pc = "done" /\ ~runs[i].manual

-----------------------------------------------------------------------------
(* Manual refreshes                                                        *)

Tiers == {"high", "medium", "low"}

\* C22: in every state, manual_refresh_priority asked for a tier other than
\* high, medium or low returns the error value and nothing else: no run is
\* counted (every fetch counts one), the cache and every counter stay as
\* they are; and a reply to such a request is the error value.
C22_UnknownTierIsReported ==
    /\ \A priority \in PriorityInputs \ Tiers, outcomes \in BatchOutcomes,
          ok \in BOOLEAN :
          LET call == ManualRefreshPriority(category_priorities, ManualState,
                                            priority, outcomes, ok)
          IN  /\ DOMAIN call.ret = {"error"}
              /\ call.refresh_stats = refresh_stats
              /\ call.simple_cache = simple_cache
    /\ (reply.kind = "refresh_by_priority" /\ reply.asked \notin Tiers)
          => DOMAIN reply.body = {"error"}

C22_Witness ==
    /\ reply.kind = "refresh_by_priority"
    /\ reply.asked = "urgent"
    /\ refresh_stats.total_refreshes > 0

TierOf(priorities, priority) ==
    {c \in DOMAIN priorities : priorities[c].priority = priority}

RunsCounted(stats, c) == stats.category_stats[c].success + stats.category_stats[c].failed

\* the catalog without its only low category
NoLowCatalog == [c \in Categories \ {"Regija"} |-> category_priorities[c]]

\* C23: in every state, manual_refresh_priority for a valid tier runs one
\* refresh for each category of the tier and for no other (one run counted
\* per category of the tier, whatever the outcomes), its results have
\* exactly the tier's categories as keys, successful is the number of true
\* results and successful + failed the size of the tier; with a catalog in
\* which the tier has no category the result is empty with both counts 0,
\* not the error value.
C23_TierRefreshedOnceEach ==
    /\ \A priority \in Tiers, outcomes \in BatchOutcomes, ok \in BOOLEAN :
          LET call == ManualRefreshPriority(category_priorities, ManualState,
                                            priority, outcomes, ok)
              tier == TierOf(category_priorities, priority)
          IN  /\ DOMAIN call.ret.results = tier
              /\ call.ret.successful =
                     Cardinality({c \in tier : call.ret.results[c]})
              /\ call.ret.successful + call.ret.failed = Cardinality(tier)
              /\ call.refresh_stats.total_refreshes =
                     refresh_stats.total_refreshes + Cardinality(tier)
              /\ \A c \in Categories :
                     RunsCounted(call.refresh_stats, c) =
                         RunsCounted(refresh_stats, c) + (IF c \in tier THEN 1 ELSE 0)
    /\ \A outcomes \in BatchOutcomes, ok \in BOOLEAN :
          LET call == ManualRefreshPriority(NoLowCatalog, ManualState, "low",
                                            outcomes, ok)
          IN  /\ "error" \notin DOMAIN call.ret
              /\ call.ret.results = EmptyDict
              /\ call.ret.successful = 0 /\ call.ret.failed = 0
              /\ call.refresh_stats = refresh_stats
              /\ call.simple_cache = simple_cache

C23_Witness ==
    /\ reply.kind = "refresh_by_priority"
    /\ reply.asked = "high"
    /\ reply.body.results = [c \in {"Hrvatska", "Svijet"} |-> c = "Svijet"]
    /\ reply.body.successful = 1
    /\ reply.body.failed = 1

\* C24: in every state, manual_refresh_category for a category outside the
\* catalog counts no run, leaves the cache and every counter as they are,
\* and returns a value that differs from what a failed refresh of a
\* category of the catalog returns.
C24_UnknownCategoryIsReported ==
    \A category \in ManualInputs \ Categories, known \in Categories,
       ok \in BOOLEAN :
       LET unknown == ManualRefreshCategory(category_priorities, ManualState,
                                            category, "articles", ok)
           failed == ManualRefreshCategory(category_priorities, ManualState,
                                           known, "none", ok)
       IN  /\ unknown.refresh_stats = refresh_stats
           /\ unknown.simple_cache = simple_cache
           /\ unknown.ret # failed.ret

-----------------------------------------------------------------------------
(* Deleting and time stamps                                                *)

\* the store of the manager under test holds an entry for name: the memory
\* dict has the key, or Redis still has it
Held(name) ==
    IF manager = "simple"
    THEN IF simple_cache.fake_redis.present
         THEN RedisLive(simple_cache.fake_redis.data, NewsKey(name))
         ELSE NewsKey(name) \in DOMAIN simple_cache.memory_cache
    ELSE IF manager = "fallback"
    THEN IF UsesFakeRedis(fallback_redis_manager)
         THEN RedisLive(fallback_redis_manager.fake_redis.data, MakeKey(name))
         ELSE MakeKey(name) \in DOMAIN fallback_redis_manager.memory_cache
    ELSE IF redis_manager.is_connected
         THEN RedisLive(redis_manager.async_redis.data, MakeKey(name))
         ELSE MakeKey(name) \in DOMAIN redis_manager.fallback_cache

\* what the delete of the manager under test returns for name
DeleteReturns(name) ==
    IF manager = "simple" THEN ClearCategory(simple_cache, name, TRUE).ret
    ELSE IF manager = "fallback"
    THEN FallbackDelete(fallback_redis_manager, name, TRUE).ret
    ELSE RedisManagerDelete(redis_manager, name, TRUE).ret

\* what get(name) returns once the delete of name has returned
LookupAfterDelete(name) ==
    IF manager = "simple"
    THEN GetNewsResult(ClearCategory(simple_cache, name, TRUE).self, name, TRUE)
    ELSE IF manager = "fallback"
    THEN FallbackGetResult(FallbackDelete(fallback_redis_manager, name, TRUE).self,
                           name, TRUE)
    ELSE RedisManagerGetResult(RedisManagerDelete(redis_manager, name, TRUE).self,
                               name, TRUE)

\* C25: in every state, the delete of a key returns true exactly when the
\* store holds an entry for the key, and a get that follows it reports the
\* key absent.
C25_DeleteReportsPresence ==
    \A name \in (IF manager = "simple" THEN CacheNames ELSE CacheKeys) :
        /\ DeleteReturns(name) = Held(name)
        /\ LookupAfterDelete(name) = Absent

\* C25 for FallbackRedisManager and RedisManager alone
C25_ManagerDeleteReportsPresence == manager # "simple" => C25_DeleteReportsPresence

\* C25, the second half alone
C25_AbsentAfterDelete ==
    \A name \in (IF manager = "simple" THEN CacheNames ELSE CacheKeys) :
        LookupAfterDelete(name) = Absent

\* C26: with SimpleRedisManager, in every state and for every category,
\* get_timestamp returns a time exactly when get_news returns articles, and
\* the time is that of the last set_news of the category that returned True
\* (the second of two sets of the same category).
C26_TimestampOfLastSet ==
    manager = "simple" =>
        \A name \in CacheNames :
            LET got == GetNewsResult(simple_cache, name, TRUE)
                stamp == GetTimestamp(simple_cache, name, TRUE)
            IN  /\ stamp.hit = got.hit
                /\ (got.hit /\ NewsKey(name) \in DOMAIN last_set)
                      => stamp.value = last_set[NewsKey(name)].at

\* C26 when the manager keeps its entries in the memory dict
C26_MemoryTimestampOfLastSet ==
    ~simple_cache.fake_redis.present => C26_TimestampOfLastSet

-----------------------------------------------------------------------------
(* The schedule of the day and the registered jobs                         *)

Frequency == [c \in Categories |-> category_priorities[c].frequency]

\* C27: in every state, running or not, get_today_schedule has one entry for
\* each configured (category, time) pair and no other, as many entries as
\* the daily frequencies add up to, in non-decreasing order of the time of
\* day, each with the priority and the frequency of its category.
C27_TodayScheduleComplete ==
    LET schedule == get_today_schedule
    IN  /\ is_running \in BOOLEAN
        /\ Len(schedule) = SumOver(Frequency, Categories)
        /\ {JobId(schedule[n].category, schedule[n].time) : n \in DOMAIN schedule}
              = AllJobs
        /\ Cardinality(AllJobs) = Len(schedule)
        /\ \A n \in 1..(Len(schedule) - 1) :
              SlotSeconds(schedule[n].time) <= SlotSeconds(schedule[n + 1].time)
        /\ \A n \in DOMAIN schedule :
              LET config == category_priorities[schedule[n].category]
              IN  /\ schedule[n].priority = config.priority
                  /\ schedule[n].frequency = <<config.frequency, "x/day">>

C27_Witness ==
    /\ is_running
    /\ now >= Hour
    /\ refresh_stats.total_refreshes >= 1
    /\ Len(get_today_schedule) = 21

\* C28: whenever the scheduler runs, after any sequence of start_scheduler
\* and stop_scheduler, the registered jobs are exactly one per configured
\* (category, time) pair: as many as the daily frequencies add up to, with
\* pairwise different job ids, and adding a job under an id that is
\* registered replaces that job without adding one.
C28_OneJobPerSlot ==
    is_running =>
        /\ DOMAIN jobs = AllJobs
        /\ Cardinality(DOMAIN jobs) = SumOver(Frequency, Categories)
        /\ Cardinality({JobIdString(j) : j \in DOMAIN jobs}) = Cardinality(DOMAIN jobs)
        /\ \A j \in AllJobs :
              /\ DOMAIN AddJob(jobs, j[1], j[2]) = DOMAIN jobs
              /\ AddJob(jobs, j[1], j[2])[j] = NextFireTime(j[2], now)

\* the scheduler runs, two refreshes have been counted and a job that fired
\* waits for its time on the next day
C28_Witness ==
    /\ is_running
    /\ refresh_stats.total_refreshes = MaxRefreshes
    /\ \E j \in DOMAIN jobs : jobs[j] >= 86400

-----------------------------------------------------------------------------
(* The catalog                                                             *)

\* every category lists as many times as its frequency, all different
WellFormed(config) ==
    \A c \in DOMAIN config :
        /\ Len(config[c].times) = config[c].frequency
        /\ \A k, l \in 1..Len(config[c].times) :
              config[c].times[k] = config[c].times[l] => k = l

\* the catalog of lines 22-51, and the same with the frequency of one
\* category one more than the times it lists
CandidateCatalogs ==
    {category_priorities}
        \cup {[category_priorities EXCEPT ![c].frequency = @ + 1] : c \in Categories}

\* __init__ (lines 17-59) with `config` as the literal of lines 22-51: the
\* catalog is stored as written, no statement compares frequency and times
NewSmartNewsScheduler(config) ==
    [accepted |-> TRUE,
     is_running |-> FALSE,
     category_priorities |-> config,
     refresh_stats |->
         [total_refreshes |-> 0, successful_refreshes |-> 0, failed_refreshes |-> 0,
          category_stats |-> [c \in DOMAIN config |-> [success |-> 0, failed |-> 0]]]]

\* C29, the catalog as configured: in every state every category lists as
\* many times as its frequency, all different, and the catalog a running
\* scheduler reports is the one it was built with
C29_CatalogWellFormed ==
    /\ WellFormed(category_priorities)
    /\ NewSmartNewsScheduler(category_priorities).category_priorities
          = category_priorities
    /\ is_running => get_schedule_status.category_priorities = category_priorities

\* C29: the catalog is well formed and stays as built, and the constructor
\* rejects a catalog in which a frequency differs from the number of times
C29_MismatchRejected ==
    /\ C29_CatalogWellFormed
    /\ \A config \in CandidateCatalogs :
          ~WellFormed(config) => ~NewSmartNewsScheduler(config).accepted

-----------------------------------------------------------------------------
(* Readers during a write                                                  *)

\* what get_news and get_timestamp read for category c at this moment: the
\* stored articles and the stored time stamp with their expiry, None for a
\* key the store does not hold
StoredEntry(cache, c) ==
    IF cache.fake_redis.present
    THEN LET d == cache.fake_redis.data
         IN  [articles |-> IF NewsKey(c) \in DOMAIN d
                           THEN <<d[NewsKey(c)].value, d[NewsKey(c)].expire_at>>
                           ELSE <<>>,
              timestamp |-> IF TimestampKey(c) \in DOMAIN d
                            THEN <<d[TimestampKey(c)].value, d[TimestampKey(c)].expire_at>>
                            ELSE <<>>]
    ELSE LET d == cache.memory_cache
         IN  [articles |-> IF NewsKey(c) \in DOMAIN d
                           THEN <<d[NewsKey(c)].data, d[NewsKey(c)].expires_at>>
                           ELSE <<>>,
              timestamp |-> IF TimestampKey(c) \in DOMAIN d
                            THEN <<d[TimestampKey(c)].data, d[TimestampKey(c)].expires_at>>
                            ELSE <<>>]

\* articles and time stamp are both there with one expiry, or both missing
Whole(entry) ==
    \/ entry.articles = <<>> /\ entry.timestamp = <<>>
    \/ /\ entry.articles # <<>>
       /\ entry.timestamp # <<>>
       /\ entry.articles[2] = entry.timestamp[2]

\* C30: at every moment, between any two steps of the set_news calls in
\* progress and after a set_news that returned False, what a reader finds
\* for a category is a whole entry: articles and time stamp written together
\* with one expiry, or neither.
C30_ReadersSeeWholeEntries ==
    \A c \in Categories : Whole(StoredEntry(simple_cache, c))

\* C30 when the manager keeps its entries in the memory dict, where set_news
\* writes both keys without an await in between
C30_MemoryReadersSeeWholeEntries ==
    ~simple_cache.fake_redis.present => C30_ReadersSeeWholeEntries

-----------------------------------------------------------------------------
(* Counters under interleaved runs                                         *)

\* the runs that have returned the value b ("true" or "false")
Returned(b) == {i \in RunIds : runs[i].pc = "done" /\ runs[i].result = b}

\* C31: at every moment, whatever the interleaving of the runs, the counters
\* show the runs that have returned and nothing else: total_refreshes is
\* their number, successful_refreshes the number of those that returned True
\* and failed_refreshes the number of those that returned False.
C31_CountersMatchReturnedRuns ==
    /\ refresh_stats.total_refreshes
          = Cardinality(Returned("true") \cup Returned("false"))
    /\ refresh_stats.successful_refreshes = Cardinality(Returned("true"))
    /\ refresh_stats.failed_refreshes = Cardinality(Returned("false"))

\* C31 in the behaviours in which no run has been cancelled
C31_CountersMatchUnlessCancelled ==
    (\A i \in RunIds : runs[i].result # "cancelled" /\ ~runs[i].cancel)
        => C31_CountersMatchReturnedRuns

\* runs i and j fetched articles for one category and both returned True;
\* frames are taken in the order the triggers fire, so i < j means that the
\* trigger of i fired first
BothSucceeded(i, j) ==
    /\ i < j
    /\ runs[i].pc = "done" /\ runs[i].result = "true" /\ runs[i].fetched = "articles"
    /\ runs[j].pc = "done" /\ runs[j].result = "true" /\ runs[j].fetched = "articles"
    /\ runs[i].category = runs[j].category

\* C32: when two runs for one category have both succeeded, the articles in
\* the cache are those fetched by the run whose trigger fired last.
C32_LastTriggerWins ==
    \A i, j \in RunIds :
        BothSucceeded(i, j)
            => GetNewsResult(simple_cache, runs[j].category, TRUE)
                  = Present(parse_news_content("articles", j))

\* C32 when the manager keeps its entries in the memory dict
C32_MemoryLastTriggerWins ==
    ~simple_cache.fake_redis.present => C32_LastTriggerWins

-----------------------------------------------------------------------------
(* Routes reading and writing the cache                                    *)

\* C33: at every moment, whatever the routes did with the articles they were
\* handed, get_news returns articles as they were stored: none of them
\* carries the user_category field a route adds to its own copy.
C33_ReadsReturnCopies ==
    \A c \in RouteCategories :
        LET got == GetNewsResult(simple_cache, c, TRUE)
        IN  \A n \in DOMAIN got.value : "user_category" \notin DOMAIN got.value[n]

\* C33 when the manager keeps its entries in FakeRedis
C33_FakeRedisReadsReturnCopies ==
    simple_cache.fake_redis.present => C33_ReadsReturnCopies

\* C37: after a scheduler run has cached a category, and for as long as no
\* route has cleared it, the category stays readable until the TTL of its
\* tier has passed since that run.
C37_SchedulerEntryKeepsTierTtl ==
    \A k \in DOMAIN last_set :
        now < last_set[k].at + last_set[k].ttl
            => GetNewsResult(simple_cache, last_set[k].name, TRUE).hit

-----------------------------------------------------------------------------
(* The refresh counters over the life of the scheduler                     *)

\* every counter of b is at least the counter of a
NotLowered(a, b) ==
    /\ a.total_refreshes <= b.total_refreshes
    /\ a.successful_refreshes <= b.successful_refreshes
    /\ a.failed_refreshes <= b.failed_refreshes
    /\ DOMAIN a.category_stats = DOMAIN b.category_stats
    /\ \A c \in DOMAIN a.category_stats :
          /\ a.category_stats[c].success <= b.category_stats[c].success
          /\ a.category_stats[c].failed <= b.category_stats[c].failed

AllZero(stats) ==
    /\ stats.total_refreshes = 0
    /\ stats.successful_refreshes = 0
    /\ stats.failed_refreshes = 0
    /\ \A c \in DOMAIN stats.category_stats :
          stats.category_stats[c].success = 0 /\ stats.category_stats[c].failed = 0

\* C34: the refresh counters are all zero after construction and no step
\* lowers any of them: starting and stopping the scheduler leave them as
\* they are, the status reports them as they are, and a run only adds to
\* them.
C34_CountersNeverDecrease ==
    /\ AllZero(refresh_stats)
    /\ [][NotLowered(refresh_stats, refresh_stats')]_vars
    /\ [](/\ StartScheduler(Lifecycle).refresh_stats = refresh_stats
          /\ StopScheduler(Lifecycle).refresh_stats = refresh_stats
          /\ is_running => get_schedule_status.refresh_stats = refresh_stats)

\* the scheduler has been stopped after a scheduled run was counted as a
\* success and another run as a failure
C34_Witness ==
    /\ ~is_running
    /\ refresh_stats.successful_refreshes >= 1
    /\ refresh_stats.failed_refreshes >= 1
    /\ \E i \in RunIds : runs[i].pc = "done" /\ ~runs[i].manual /\ runs[i].result = "true"

-----------------------------------------------------------------------------
(* Clearing by pattern                                                     *)

\* the names of `before` that contain the pattern
NamesContaining(pattern, before) ==
    {name \in before : Contains(Chars(pattern), Chars(name))}

\* what one path did is what the pattern asks for
ClearedExactly(pattern, path) ==
    /\ path.after = path.before \ NamesContaining(pattern, path.before)
    /\ path.ret = Cardinality(NamesContaining(pattern, path.before))

\* C35: every stored key is the prefix followed by the logical name, and
\* once clear_pattern(p) has returned, each path has removed exactly the
\* entries whose logical name contains p, has kept the others and has
\* returned the number it removed.
C35_ClearPatternBySubstring ==
    /\ \A k \in DOMAIN PrimaryStore \cup DOMAIN MemoryStore :
          k[1] = "ai_novine:" /\ k[2] \in PatternKeys /\ k = MakeKey(k[2])
    /\ reply.kind = "clear_pattern"
          => /\ ClearedExactly(reply.pattern, reply.primary)
             /\ ClearedExactly(reply.pattern, reply.memory)

\* C35 for the patterns that have no * or ? and do not occur in the prefix
C35_PlainPatternBySubstring ==
    (reply.kind = "clear_pattern" /\ reply.pattern \in {"sport", "s"})
        => /\ ClearedExactly(reply.pattern, reply.primary)
           /\ ClearedExactly(reply.pattern, reply.memory)

\* C35 on the primary path for the patterns that have no * or ?
C35_PrimaryBySubstring ==
    (reply.kind = "clear_pattern" /\ reply.pattern \notin {"*", "?"})
        => ClearedExactly(reply.pattern, reply.primary)

-----------------------------------------------------------------------------
(* RedisManager.get and the task it starts                                 *)

\* the last successful set of each key, not followed by a set or a delete of
\* the key, is what get returns while the entry has not expired
ReadsLastSet ==
    \A k \in DOMAIN last_set :
        (last_set[k].ttl > 0 /\ now - last_set[k].at < last_set[k].ttl)
            => RedisManagerGetResult(redis_manager, last_set[k].name, TRUE)
                   = Present(last_set[k].value)

\* CacheKeys holds one key, set counts its successful sets and delete the
\* calls that removed it; a delete removes only what a set has stored since
\* the delete before it, so with as many deletes as sets the call that
\* returned last is a delete, and the key is absent
AbsentAfterDelete ==
    redis_manager.cache_deletes = redis_manager.cache_sets
        => \A key \in CacheKeys :
              RedisManagerGetResult(redis_manager, key, TRUE) = Absent

\* C36: however get, the task it starts, set and delete interleave on
\* RedisManager, a set that has returned is what get returns until the entry
\* expires or is set or deleted again, and a delete that has returned leaves
\* the key absent until the next set.
C36_GetIsReadOnly == manager = "redis" => ReadsLastSet /\ AbsentAfterDelete

\* C36 on the in-memory fallback of RedisManager, where get starts no task
C36_ReadOnlyWithoutTask ==
    (manager = "redis" /\ ~redis_manager.is_connected) => ReadsLastSet /\ AbsentAfterDelete

-----------------------------------------------------------------------------
(* Runs and the catalog                                                    *)

\* C38: in every reachable state the per-category counters are kept for
\* exactly the categories of the catalog, every registered job is a job of
\* one of them, and every run that a job or a manual refresh has started is
\* a run of one of them, so that the run finds its priority and its
\* counters.
C38_RunsOnlyForConfiguredCategories ==
    /\ DOMAIN refresh_stats.category_stats = DOMAIN category_priorities
    /\ \A job \in DOMAIN jobs : JobCategory(job) \in DOMAIN category_priorities
    /\ \A i \in RunIds :
          runs[i].pc # "idle"
              => /\ runs[i].category \in DOMAIN category_priorities
                 /\ runs[i].category \in DOMAIN refresh_stats.category_stats

\* a scheduled run and a manual run have both been counted, one of them as
\* a failure, while the jobs are registered
C38_Witness ==
    /\ is_running
    /\ DOMAIN jobs # {}
    /\ \E i, j \in RunIds :
          /\ runs[i].pc = "done" /\ ~runs[i].manual
          /\ runs[j].pc = "done" /\ runs[j].manual
          /\ runs[j].result = "false"
    /\ refresh_stats.total_refreshes = MaxRuns

\* C38 for manual_refresh_priority: the categories it refreshes are
\* categories of the catalog
C38_PriorityRunsConfigured ==
    reply.kind = "refresh_by_priority" /\ "results" \in DOMAIN reply.body
        => /\ DOMAIN reply.body.results \subseteq DOMAIN category_priorities
           /\ DOMAIN refresh_stats.category_stats = DOMAIN category_priorities

====
